---- MODULE Spec2Model ----
(***************************************************************************)
(* Model of the support-dashboard core of GPT-FD-Sentiment:                *)
(*   - OperationsManualProcessor (src/lib/operations-manual.ts)            *)
(*   - ActionRecommendationEngine (src/unnamed/part_002)                   *)
(*                                                                         *)
(* Strings are kept in a run-length form: a text is a sequence of runs     *)
(* [k |-> kind, n |-> count] where kind is "txt" (n non-whitespace         *)
(* characters), "sp" (n blanks) or "nl" (n line feeds).  The length of a   *)
(* string is the sum of its counts, so texts of 2000 characters and more   *)
(* are a handful of runs.                                                  *)
(***************************************************************************)
EXTENDS Integers, Sequences, FiniteSets, TLC

VARIABLES
    text,             \* argument `text` of the processManualText call
    manualId,         \* argument `manualId` of the processManualText call
    mpc,              \* position of the processManualText call
    chunks,           \* local `chunks` of extractSections
    sections,         \* local `sections` of extractSections
    manuals,          \* OperationsManualProcessor.manuals, in insertion order
    recommendations,  \* ActionRecommendationEngine.recommendations
    calls,            \* the generateRecommendations calls in flight
    clock,            \* the value Date.now() returns
    search,           \* the searchManual call in flight
    batch,            \* the analyzeBatch call in flight
    analyze,          \* the analyzeTicket call in flight
    http,             \* the HTTP request a route handler took last, and its answer
    view,             \* the state of the ActionRecommendations component
    dashboard,        \* the state of the FreshdeskDashboard component
    response          \* what the operation completed by the last step returned

mvars == <<text, manualId, mpc, chunks, sections, manuals>>

\* the calls of searchManual, analyzeBatch and analyzeTicket, and what is
\* outside the two processors: the route handlers and the components
cvars == <<http, view, dashboard>>

svars == <<search, batch, analyze, cvars>>

vars == <<text, manualId, mpc, chunks, sections, manuals,
          recommendations, calls, clock, search, batch, analyze, http, view,
          dashboard, response>>

----------------------------------------------------------------------------
(* Bounds of the model                                                     *)

MaxTokens == 5          \* runs in an input text
MaxClock == 1           \* milliseconds the clock advances in a behaviour
MaxSteps == 2           \* steps in a generated action plan
MaxSections == 6        \* sections of a manual that is searched
MaxQueryLen == 3        \* characters of a query that is scored
MaxWords == 2           \* words in the description of a ticket
MaxTickets == 11        \* tickets in a request to analyzeBatch

----------------------------------------------------------------------------
(* Strings                                                                 *)

Txt(n) == [k |-> "txt", n |-> n]
Sp == [k |-> "sp", n |-> 1]
Nl(n) == [k |-> "nl", n |-> n]

\* run lengths of non-whitespace text the inputs are built from
RunLengths == {1, 998, 1000}

Tokens == {Txt(n) : n \in RunLengths} \cup {Sp, Nl(1), Nl(2)}

IsWs(tok) == tok.k \in {"sp", "nl"}

\* A `text` argument that is not a string (the parameter type is not checked at
\* run time; the upload route always passes a string): text.split is then not
\* a function and line 139 throws a TypeError.
NotAString == << [k |-> "none", n |-> 0] >>

IsString(s) == \A i \in 1..Len(s) : s[i].k # "none"

RECURSIVE StrLen(_)
StrLen(s) == IF s = <<>> THEN 0 ELSE Head(s).n + StrLen(Tail(s))

\* String.prototype.trim: whitespace (line feeds included) goes from both ends
RECURSIVE TrimLeft(_)
TrimLeft(s) ==
    IF s = <<>> THEN <<>>
    ELSE IF IsWs(Head(s)) THEN TrimLeft(Tail(s)) ELSE s

RECURSIVE TrimRight(_)
TrimRight(s) ==
    IF s = <<>> THEN <<>>
    ELSE IF IsWs(s[Len(s)]) THEN TrimRight(SubSeq(s, 1, Len(s) - 1)) ELSE s

Trim(s) == TrimRight(TrimLeft(s))

----------------------------------------------------------------------------
(* text.split(/\n\s*\n/)                                                   *)

\* last index of the whitespace stretch that begins at index i
RECURSIVE StretchEnd(_, _)
StretchEnd(s, i) ==
    IF i < Len(s) /\ IsWs(s[i + 1]) THEN StretchEnd(s, i + 1) ELSE i

NlIndices(s, i, j) == {x \in i..j : s[x].k = "nl"}

RECURSIVE SumNl(_, _)
SumNl(s, idx) ==
    IF idx = {} THEN 0
    ELSE LET x == CHOOSE y \in idx : TRUE IN s[x].n + SumNl(s, idx \ {x})

SetMin(S) == CHOOSE x \in S : \A y \in S : x <= y
SetMax(S) == CHOOSE x \in S : \A y \in S : x >= y

\* The regular expression matches from the first line feed of a whitespace
\* stretch to the last one of that stretch (\s* is greedy), provided the
\* stretch holds at least two line feeds.  Blanks before the first line feed
\* stay with the paragraph on the left, blanks after the last one with the
\* paragraph on the right.
RECURSIVE SplitFrom(_, _, _)
SplitFrom(s, i, start) ==
    IF i > Len(s) THEN << SubSeq(s, start, Len(s)) >>
    ELSE IF ~IsWs(s[i]) THEN SplitFrom(s, i + 1, start)
    ELSE LET j == StretchEnd(s, i)
             nls == NlIndices(s, i, j)
         IN IF SumNl(s, nls) >= 2
            THEN << SubSeq(s, start, SetMin(nls) - 1) >>
                     \o SplitFrom(s, j + 1, SetMax(nls) + 1)
            ELSE SplitFrom(s, j + 1, start)

SplitParagraphs(s) == SplitFrom(s, 1, 1)

----------------------------------------------------------------------------
(* OperationsManualProcessor.splitIntoChunks                               *)

\* the chunk size extractSections asks for
ChunkLimit == 2000

\* the separator the packing loop puts between two paragraphs of a chunk
Joiner == << Nl(2) >>

\* mutant: the test of the packing loop with || for &&
OverflowsEager(currentChunk, paragraph, maxChunkSize) ==
    StrLen(currentChunk) + StrLen(paragraph) > maxChunkSize \/ StrLen(currentChunk) > 0

\* the test of line 144
Overflows(currentChunk, paragraph, maxChunkSize) ==
    StrLen(currentChunk) + StrLen(paragraph) > maxChunkSize /\ StrLen(currentChunk) > 0

\* the loop of lines 143-150 over paragraphs[i..], from the loop state
\* (chunks so far, currentChunk); returns the loop state at the end
RECURSIVE PackLoop(_, _, _, _, _)
PackLoop(paragraphs, i, acc, currentChunk, maxChunkSize) ==
    IF i > Len(paragraphs) THEN [chunks |-> acc, currentChunk |-> currentChunk]
    ELSE LET paragraph == paragraphs[i] IN
         IF Overflows(currentChunk, paragraph, maxChunkSize)
         THEN PackLoop(paragraphs, i + 1, Append(acc, Trim(currentChunk)),
                       paragraph, maxChunkSize)
         ELSE PackLoop(paragraphs, i + 1, acc,
                       currentChunk
                         \o (IF currentChunk # <<>> THEN Joiner ELSE <<>>)
                         \o paragraph,
                       maxChunkSize)

\* mutant: the last chunk is never flushed
SplitIntoChunksNoFlush(s, maxChunkSize) ==
    PackLoop(SplitParagraphs(s), 1, <<>>, <<>>, maxChunkSize).chunks

SplitIntoChunks(s, maxChunkSize) ==
    LET end == PackLoop(SplitParagraphs(s), 1, <<>>, <<>>, maxChunkSize)
    IN IF Trim(end.currentChunk) # <<>>
       THEN Append(end.chunks, Trim(end.currentChunk))
       ELSE end.chunks

----------------------------------------------------------------------------
(* OperationsManualProcessor.processManualText / extractSections          *)

ManualIds == {"M1", "M2"}

\* nothing was returned in the last step
NoResponse == [op |-> "none"]

\* no request has been taken, and the components before their first event
NoHttp == [route |-> "none"]
NoView == [mounted |-> FALSE]
NoDashboard == [operationsManual |-> FALSE]

\* `section-${i + 1}` of lines 109 and 124, i counted from 1 here
SectionId(i) == << "section", i >>

\* what generateObject may answer for a chunk (sectionSchema)
\* title, content and keywords are strings of single characters
AiSections ==
    { [title |-> << "R", "e", "f", "u", "n", "d", "s" >>,
       content |-> << "r", "e", "f", "u", "n", "d" >>, category |-> "Billing",
       keywords |-> << << "r", "e", "f", "u", "n", "d" >> >>, priority |-> "high"] }

\* lines 108-116
AiSection(i, object) ==
    [id |-> SectionId(i), title |-> object.title, content |-> object.content,
     category |-> object.category, keywords |-> object.keywords,
     priority |-> object.priority, fromAi |-> TRUE]

\* decimal digits of a small number, as template literals print it
NumStr(i) == << "1", "2", "3", "4", "5", "6", "7", "8", "9" >>[i]

\* `Section ${i + 1}` of line 125, i counted from 1 here
SectionTitle(i) == << "S", "e", "c", "t", "i", "o", "n", " ", NumStr(i) >>

\* mutant: the loop index is used as it is, counted from 0
FallbackSectionZeroBased(i, chunk) ==
    [id |-> SectionId(i - 1), title |-> SectionTitle(i), content |-> chunk,
     category |-> "General", keywords |-> << >>, priority |-> "medium",
     fromAi |-> FALSE]

\* lines 123-131
FallbackSection(i, chunk) ==
    [id |-> SectionId(i), title |-> SectionTitle(i), content |-> chunk,
     category |-> "General", keywords |-> << >>, priority |-> "medium",
     fromAi |-> FALSE]

\* The store is the sequence of the map's entries in insertion order; an entry
\* is the ProcessedManual with the key it is stored under.
Keys(store) == {store[i].key : i \in 1..Len(store)}

\* a ProcessedManual (lines 56-63 and 69-76) as the entry stored under `key`
Entry(key, id, status, secs) ==
    [key |-> key, id |-> id, status |-> status, sections |-> secs]

\* Map.set: a known key keeps its place in the iteration order
MapSet(store, entry) ==
    IF \E i \in 1..Len(store) : store[i].key = entry.key
    THEN [i \in 1..Len(store) |->
            IF store[i].key = entry.key THEN entry ELSE store[i]]
    ELSE Append(store, entry)

\* Map.get; no entry (undefined) is the empty sequence
MapGet(store, key) ==
    IF key \in Keys(store)
    THEN << store[CHOOSE i \in 1..Len(store) : store[i].key = key] >>
    ELSE << >>

\* the entries that stay when one key goes, in their order
RECURSIVE Without(_, _)
Without(store, key) ==
    IF store = << >> THEN << >>
    ELSE IF Head(store).key = key THEN Without(Tail(store), key)
    ELSE << Head(store) >> \o Without(Tail(store), key)

\* mutant: the ready manual is returned without being stored
StoreReadyUnstored(secs) ==
    /\ manuals' = manuals
    /\ response' = [op |-> "processManualText", manualId |-> manualId,
                    status |-> "ready", sections |-> secs]
    /\ mpc' = "idle"

\* lines 56-66: the manual is built with status "ready" and stored
StoreReady(secs) ==
    /\ manuals' = MapSet(manuals, Entry(manualId, manualId, "ready", secs))
    /\ response' = [op |-> "processManualText", manualId |-> manualId,
                    status |-> "ready", sections |-> secs]
    /\ mpc' = "idle"

\* lines 67-79: the catch block stores and returns a manual with status "error"
\* and no sections
StoreError ==
    /\ manuals' = MapSet(manuals, Entry(manualId, manualId, "error", << >>))
    /\ response' = [op |-> "processManualText", manualId |-> manualId,
                    status |-> "error", sections |-> << >>]
    /\ mpc' = "idle"

\* line 84, and the first generateObject call of the loop when there is a chunk
ExtractBegin ==
    /\ mpc = "called"
    /\ IsString(text)
    /\ LET cs == SplitIntoChunks(text, ChunkLimit) IN
        /\ chunks' = cs
        /\ sections' = << >>
        /\ IF cs = << >>
           THEN StoreReady(<< >>)
           ELSE /\ mpc' = "extract"
                /\ response' = NoResponse
                /\ UNCHANGED manuals
    /\ UNCHANGED <<text, manualId, recommendations, calls, clock, svars>>

\* line 84 throws for a text that is not a string; the exception leaves
\* extractSections and is caught at line 67
ExtractThrows ==
    /\ mpc = "called"
    /\ ~IsString(text)
    /\ StoreError
    /\ UNCHANGED <<text, manualId, chunks, sections, recommendations, calls, clock, svars>>

\* lines 102-119: generateObject answers, the section is pushed, the delay starts
ExtractOk ==
    /\ mpc = "extract"
    /\ \E object \in AiSections :
          sections' = Append(sections, AiSection(Len(sections) + 1, object))
    /\ mpc' = "delay"
    /\ response' = NoResponse
    /\ UNCHANGED <<text, manualId, chunks, manuals, recommendations, calls, clock, svars>>

\* the 500 ms timer of line 119 fires: next chunk, or the loop ends
DelayDone ==
    /\ mpc = "delay"
    /\ IF Len(sections) < Len(chunks)
       THEN /\ mpc' = "extract"
            /\ response' = NoResponse
            /\ UNCHANGED manuals
       ELSE StoreReady(sections)
    /\ UNCHANGED <<text, manualId, chunks, sections, recommendations, calls, clock, svars>>

\* lines 120-132: generateObject fails, the fallback section is pushed and the
\* loop goes on without delay
ExtractFail ==
    /\ mpc = "extract"
    /\ LET i == Len(sections) + 1
           secs == Append(sections, FallbackSection(i, chunks[i]))
       IN /\ sections' = secs
          /\ IF i < Len(chunks)
             THEN /\ mpc' = "extract"
                  /\ response' = NoResponse
                  /\ UNCHANGED manuals
             ELSE StoreReady(secs)
    /\ UNCHANGED <<text, manualId, chunks, recommendations, calls, clock, svars>>

----------------------------------------------------------------------------
(* ActionRecommendationEngine: data                                       *)

\* the ticket recommendations are asked for, and one they never are
TicketIds == {"T1"}
UnknownTicketId == "T0"
Sentiments == {"positive", "neutral", "negative"}
Urgencies == {"low", "medium", "high", "urgent"}

\* The RecommendationContext of a request.  emotionsIsArray is FALSE for a
\* request body whose sentimentAnalysis carries no `emotions` array: the route
\* checks only that context.ticket and context.sentimentAnalysis are present.
Contexts ==
    [ticket : TicketIds, sentiment : Sentiments, urgency : Urgencies,
     hasGuidance : BOOLEAN, emotionsIsArray : BOOLEAN]

\* `step-${index + 1}` of line 202, and the literal ids of the fallback steps
StepId(i) == << "step", i >>

\* `rec-${context.ticket.id}-${type}-${Date.now()}` of lines 213 and 289
RecId(ticket, type, now) == [ticket |-> ticket, type |-> type, now |-> now]

\* lines 201-210: object.steps.map((step, index) => ...), for n steps
AiSteps(n) == [i \in 1..n |-> [id |-> StepId(i), order |-> i]]

\* lines 212-226: the recommendation made from a generated object with n steps
AiRecommendation(ctx, type, n, now) ==
    [id |-> RecId(ctx.ticket, type, now), title |-> "generated",
     priority |-> "high", steps |-> AiSteps(n), confidence |-> 90]

\* lines 253-285: baseSteps, with the priority step put in front for a
\* negative sentiment
FallbackSteps(ctx) ==
    (IF ctx.sentiment = "negative"
     THEN << [id |-> StepId(0), order |-> 0] >> ELSE << >>)
    \o << [id |-> StepId(1), order |-> 1], [id |-> StepId(2), order |-> 2] >>

\* lines 287-303; confidence 0.6 is kept in hundredths
GenerateFallbackRecommendations(ctx, now) ==
    << [id |-> RecId(ctx.ticket, "fallback", now),
        title |-> "Standard Support Response",
        priority |-> IF ctx.urgency = "urgent" THEN "urgent" ELSE "medium",
        steps |-> FallbackSteps(ctx), confidence |-> 60] >>

\* mutant: the urgency is not looked at
WantsEscalationAnyUrgency(ctx) ==
    ctx.sentiment = "negative"

\* lines 176-179
WantsEscalation(ctx) ==
    ctx.sentiment = "negative" /\ ctx.urgency \in {"high", "urgent"}

\* mutant: the new sequence is added to the one already stored
StoreSetMerged(store, key, value) ==
    [t \in DOMAIN store \cup {key} |->
        IF t = key
        THEN (IF key \in DOMAIN store THEN store[key] ELSE << >>) \o value
        ELSE store[t]]

\* Map.prototype.set on the per-ticket store
StoreSet(store, key, value) ==
    [t \in DOMAIN store \cup {key} |-> IF t = key THEN value ELSE store[t]]

\* lines 345-347
GetRecommendations(ticketId) ==
    IF ticketId \in DOMAIN recommendations THEN recommendations[ticketId] ELSE << >>

NoStore == [t \in {} |-> << >>]

IdleCall == [pc |-> "idle"]

\* the requests that can be in flight together
Slots == {1, 2}

----------------------------------------------------------------------------
(* ActionRecommendationEngine.generateRecommendations                     *)

\* the lengths of the steps array an answer of generateObject may carry (the
\* schema at lines 58-67 puts no limit on it): none, one, and the longest plan
StepCounts == {0, 1, MaxSteps}

\* what generateObject may do for one request: fail, or answer with an object
\* of n steps
GenOutcomes ==
    {[ok |-> FALSE, n |-> 0]} \cup {[ok |-> TRUE, n |-> k] : k \in StepCounts}

\* mutant: a failed generation is not dropped from the result
SingleRecommendationNeverNull(ctx, type, out, now) ==
    << AiRecommendation(ctx, type, out.n, now) >>

\* generateSingleRecommendation (lines 189-231) once generateObject has
\* answered: the recommendation, or null (here: nothing) on failure
SingleRecommendation(ctx, type, out, now) ==
    IF out.ok THEN << AiRecommendation(ctx, type, out.n, now) >> ELSE << >>

\* the entry the call makes in its record of generation-client requests
Attempt(type, ok) == [type |-> type, ok |-> ok]

\* lines 102-104: the result is stored under the ticket id and returned
StoreAndReturn(s, ctx, recs, attempts) ==
    /\ recommendations' = StoreSet(recommendations, ctx.ticket, recs)
    /\ response' = [op |-> "generateRecommendations", ctx |-> ctx,
                    result |-> recs, fallback |-> FALSE, attempts |-> attempts]
    /\ calls' = [calls EXCEPT ![s] = IdleCall]

\* lines 105-108: the catch block returns the static plan; nothing is stored
ReturnFallback(s, ctx, attempts) ==
    /\ response' = [op |-> "generateRecommendations", ctx |-> ctx,
                    result |-> GenerateFallbackRecommendations(ctx, clock),
                    fallback |-> TRUE, attempts |-> attempts]
    /\ calls' = [calls EXCEPT ![s] = IdleCall]
    /\ UNCHANGED recommendations

\* line 99 up to the first await of generateMultipleOptions: the prompt is
\* built (lines 115-162); emotions.join throws a TypeError when emotions is
\* not an array, which rejects the promise and lands in the catch of line 105
EnterOptions(s, ctx, attempts) ==
    IF ctx.emotionsIsArray
    THEN /\ calls' = [calls EXCEPT ![s] =
                        [pc |-> "primary", ctx |-> ctx, recs |-> << >>,
                         attempts |-> attempts]]
         /\ response' = NoResponse
         /\ UNCHANGED recommendations
    ELSE ReturnFallback(s, ctx, attempts)

\* mutant: a manual that is not ready is not searched
NeedsSearchReadyOnly(ctx) ==
    /\ ~ctx.hasGuidance
    /\ Len(manuals) > 0
    /\ manuals[1].status = "ready"

\* lines 81-82: a search is made when no guidance came with the request and
\* the store holds a manual, whatever the state of that manual
NeedsSearch(ctx) ==
    /\ ~ctx.hasGuidance
    /\ Len(manuals) > 0

\* the entry the call makes in its record for the searchManual request of
\* line 86, with the id the request is addressed to
SearchAttempt(id, ok) == [type |-> "search", ok |-> ok, manual |-> id]

\* generateRecommendations(ctx) up to its first await; line 86 addresses
\* manuals[0], the first value of the Map in insertion order
CallGenerateRecommendations(s, ctx) ==
    IF NeedsSearch(ctx)
    THEN /\ calls' = [calls EXCEPT ![s] =
                        [pc |-> "search", ctx |-> ctx, recs |-> << >>,
                         attempts |-> << >>, target |-> manuals[1].id]]
         /\ response' = NoResponse
         /\ UNCHANGED recommendations
    ELSE EnterOptions(s, ctx, << >>)

GenerateStart(s) ==
    /\ calls[s].pc = "idle"
    /\ \E ctx \in Contexts : CallGenerateRecommendations(s, ctx)
    /\ UNCHANGED <<mvars, clock, svars>>

\* the contexts of requests made while another request for the same ticket is
\* being served: guidance supplied, with and without an escalation due, with
\* and without the emotions array
OverlapContexts ==
    {ctx \in Contexts : /\ ctx.hasGuidance
                        /\ ctx.urgency = "urgent"
                        /\ ctx.sentiment \in {"neutral", "negative"}}

\* generateRecommendations is called on slot s, whatever the other slot does
GenerateOverlapping(s) ==
    /\ calls[s].pc = "idle"
    /\ \E ctx \in OverlapContexts : CallGenerateRecommendations(s, ctx)
    /\ UNCHANGED <<mvars, clock, svars>>

\* searchManual resolves: with no result for a manual that is not ready,
\* else ranked by generateText or, when that failed, by its own keyword
\* fallback; the result only feeds the prompt
SearchReturn(s) ==
    /\ calls[s].pc = "search"
    /\ \E ok \in BOOLEAN :
         EnterOptions(s, calls[s].ctx, << SearchAttempt(calls[s].target, ok) >>)
    /\ UNCHANGED <<mvars, clock, svars>>

\* line 165 resolves, line 171 is awaited
PrimaryReturn(s) ==
    /\ calls[s].pc = "primary"
    /\ \E out \in GenOutcomes :
         calls' = [calls EXCEPT ![s] =
                     [pc |-> "alternative", ctx |-> calls[s].ctx,
                      recs |-> SingleRecommendation(calls[s].ctx, "primary", out, clock),
                      attempts |-> Append(calls[s].attempts, Attempt("primary", out.ok))]]
    /\ response' = NoResponse
    /\ UNCHANGED <<mvars, recommendations, clock, svars>>

\* line 171 resolves; lines 173-186
AlternativeReturn(s) ==
    /\ calls[s].pc = "alternative"
    /\ \E out \in GenOutcomes :
         LET ctx == calls[s].ctx
             recs == calls[s].recs \o SingleRecommendation(ctx, "alternative", out, clock)
             attempts == Append(calls[s].attempts, Attempt("alternative", out.ok))
         IN IF WantsEscalation(ctx)
            THEN /\ calls' = [calls EXCEPT ![s] =
                                [pc |-> "escalation", ctx |-> ctx, recs |-> recs,
                                 attempts |-> attempts]]
                 /\ response' = NoResponse
                 /\ UNCHANGED recommendations
            ELSE StoreAndReturn(s, ctx, recs, attempts)
    /\ UNCHANGED <<mvars, clock, svars>>

\* line 180 resolves; lines 181-186, then lines 102-104
EscalationReturn(s) ==
    /\ calls[s].pc = "escalation"
    /\ \E out \in GenOutcomes :
         LET ctx == calls[s].ctx IN
         StoreAndReturn(s, ctx,
                        calls[s].recs \o SingleRecommendation(ctx, "escalation", out, clock),
                        Append(calls[s].attempts, Attempt("escalation", out.ok)))
    /\ UNCHANGED <<mvars, clock, svars>>

\* a millisecond passes
Tick ==
    /\ clock < MaxClock
    /\ clock' = clock + 1
    /\ response' = NoResponse
    /\ UNCHANGED <<mvars, recommendations, calls, svars>>

----------------------------------------------------------------------------
(* ActionRecommendationEngine.executeAction                               *)

\* Array.prototype.findIndex, 1-based; 0 when nothing matches
FindIndex(seq, id) ==
    IF \E i \in 1..Len(seq) : seq[i].id = id
    THEN SetMin({i \in 1..Len(seq) : seq[i].id = id})
    ELSE 0

\* mutant: the step after the next one
NextStepSkipping(steps, currentIndex) ==
    IF currentIndex + 1 < Len(steps) THEN << steps[currentIndex + 2] >> ELSE << >>

\* line 336, with 1-based indices; an absent nextStep is the empty sequence
NextStepOf(steps, currentIndex) ==
    IF currentIndex < Len(steps) THEN << steps[currentIndex + 1] >> ELSE << >>

\* mutant: the recommendation is not looked up by id, the first one is taken
ExecuteActionFirstRec(ticketId, recommendationId, stepId) ==
    IF ticketId \notin DOMAIN recommendations
    THEN [success |-> FALSE, message |-> "No recommendations found for this ticket",
          nextStep |-> << >>]
    ELSE LET recs == recommendations[ticketId] IN
         IF recs = << >>
         THEN [success |-> FALSE, message |-> "Recommendation not found",
               nextStep |-> << >>]
         ELSE LET steps == recs[1].steps
                  k == FindIndex(steps, stepId)
              IN IF k = 0
                 THEN [success |-> FALSE, message |-> "Step not found",
                       nextStep |-> << >>]
                 ELSE [success |-> TRUE, message |-> "Successfully executed",
                       nextStep |-> NextStepOf(steps, k)]

\* lines 315-342
ExecuteActionResult(ticketId, recommendationId, stepId) ==
    IF ticketId \notin DOMAIN recommendations
    THEN [success |-> FALSE, message |-> "No recommendations found for this ticket",
          nextStep |-> << >>]
    ELSE LET recs == recommendations[ticketId]
             r == FindIndex(recs, recommendationId)
         IN IF r = 0
            THEN [success |-> FALSE, message |-> "Recommendation not found",
                  nextStep |-> << >>]
            ELSE LET steps == recs[r].steps
                     k == FindIndex(steps, stepId)
                 IN IF k = 0
                    THEN [success |-> FALSE, message |-> "Step not found",
                          nextStep |-> << >>]
                    ELSE [success |-> TRUE, message |-> "Successfully executed",
                          nextStep |-> NextStepOf(steps, k)]

\* ids a caller can name: those of the stored recommendations, and one that
\* is in no store
UnknownRecId == RecId("T1", "none", 0)

StoredRecIds ==
    UNION { {recommendations[t][i].id : i \in 1..Len(recommendations[t])} :
            t \in DOMAIN recommendations }

RequestStepIds == {StepId(i) : i \in 0..MaxSteps + 1}

\* executeAction only reads the store, and the store changes only when a
\* generateRecommendations call completes: the lookups are taken between calls
ExecuteAction ==
    /\ \A s \in Slots : calls[s].pc = "idle"
    /\ \E ticketId \in TicketIds \cup {UnknownTicketId},
          recommendationId \in StoredRecIds \cup {UnknownRecId},
          stepId \in RequestStepIds :
         response' = [op |-> "executeAction", ticketId |-> ticketId,
                      recommendationId |-> recommendationId, stepId |-> stepId,
                      result |-> ExecuteActionResult(ticketId, recommendationId, stepId)]
    /\ UNCHANGED <<mvars, recommendations, calls, clock, svars>>

\* getRecommendations(ticketId), lines 345-347
GetRecommendationsCall ==
    /\ \E ticketId \in TicketIds \cup {UnknownTicketId} :
          response' = [op |-> "getRecommendations", ticketId |-> ticketId,
                       result |-> GetRecommendations(ticketId)]
    /\ UNCHANGED <<mvars, recommendations, calls, clock, svars>>

\* the feedback a caller may send: the ends of the 1-5 scale
Feedbacks == [effectiveness : {1, 5}]

\* mutant: the feedback is written into the stored recommendation
FeedbackStoreRecorded(store, ticketId, recommendationId, feedback) ==
    IF ticketId \notin DOMAIN store THEN store
    ELSE [store EXCEPT ![ticketId] =
            [i \in 1..Len(@) |->
                IF @[i].id = recommendationId
                THEN [@[i] EXCEPT !.confidence = feedback.effectiveness]
                ELSE @[i]]]

\* lines 359-361: the feedback is logged, the store stays as it is
FeedbackStore(store, ticketId, recommendationId, feedback) == store

\* updateRecommendationFeedback(ticketId, recommendationId, feedback)
UpdateRecommendationFeedback ==
    /\ \E ticketId \in TicketIds \cup {UnknownTicketId},
          recommendationId \in StoredRecIds \cup {UnknownRecId},
          feedback \in Feedbacks :
          /\ recommendations' =
                FeedbackStore(recommendations, ticketId, recommendationId, feedback)
          /\ response' = [op |-> "updateRecommendationFeedback",
                          ticketId |-> ticketId,
                          recommendationId |-> recommendationId, result |-> TRUE]
    /\ UNCHANGED <<mvars, calls, clock, svars>>

----------------------------------------------------------------------------
(* OperationsManualProcessor: the calls on the manual store                *)

\* the texts processManualText is called with: one paragraph, two paragraphs
\* that need two chunks, nothing but a blank, and a value that is not a string
UploadTexts ==
    { << Txt(1) >>,
      << Txt(1000), Nl(2), Txt(1000), Txt(1) >>,
      << Sp >>,
      NotAString }

\* processManualText(id, name, t) is entered (line 51)
CallProcessManualText(id, t) ==
    /\ manualId' = id
    /\ text' = t
    /\ mpc' = "called"
    /\ chunks' = << >>
    /\ sections' = << >>
    /\ response' = NoResponse
    /\ UNCHANGED manuals

\* processManualText(manualId, name, text) is called
ProcessManualText ==
    /\ mpc = "idle"
    /\ \E id \in ManualIds, t \in UploadTexts : CallProcessManualText(id, t)
    /\ UNCHANGED <<recommendations, calls, clock, svars>>

\* mutant: the entry stays and the call still reports it gone
DeleteManualKeeps(store, id) ==
    [store |-> store, result |-> id \in Keys(store)]

\* lines 313-315: Map.delete reports whether the key was there
DeleteManualResult(store, id) ==
    [store |-> Without(store, id), result |-> id \in Keys(store)]

\* an id no manual was ever processed under
UnknownManualId == "M0"

\* deleteManual(manualId); the DELETE route calls it for any id it is given
DeleteManual ==
    /\ \E id \in ManualIds \cup {UnknownManualId} :
          LET d == DeleteManualResult(manuals, id)
          IN /\ manuals' = d.store
             /\ response' = [op |-> "deleteManual", manualId |-> id,
                             result |-> d.result]
    /\ UNCHANGED <<text, manualId, mpc, chunks, sections, recommendations, calls,
                   clock, svars>>

\* the ProcessedManual an entry of the store holds
ManualOf(entry) ==
    [id |-> entry.id, status |-> entry.status, sections |-> entry.sections]

\* lines 305-307: getManual(manualId); undefined is the empty sequence
GetManual ==
    /\ \E id \in ManualIds \cup {UnknownManualId} :
          response' = [op |-> "getManual", manualId |-> id,
                       result |-> IF MapGet(manuals, id) = << >> THEN << >>
                                  ELSE << ManualOf(MapGet(manuals, id)[1]) >>]
    /\ UNCHANGED <<mvars, recommendations, calls, clock, svars>>

\* lines 309-311: Array.from(this.manuals.values())
GetAllManuals ==
    /\ response' = [op |-> "getAllManuals",
                    result |-> [i \in 1..Len(manuals) |-> ManualOf(manuals[i])]]
    /\ UNCHANGED <<mvars, recommendations, calls, clock, svars>>

----------------------------------------------------------------------------
(* OperationsManualProcessor.calculateRelevanceScore                       *)

\* For the search, titles, contents, keywords and queries are strings of
\* single characters: two letters in both cases, and the blank.
Chars == {"a", "b", "A", "B", " "}

\* String.prototype.toLowerCase, for the capitals the inputs are written with
LowerChar(c) ==
    CASE c = "A" -> "a"
      [] c = "B" -> "b"
      [] c = "G" -> "g"
      [] c = "P" -> "p"
      [] c = "R" -> "r"
      [] c = "S" -> "s"
      [] OTHER -> c

ToLowerCase(s) == [i \in 1..Len(s) |-> LowerChar(s[i])]

\* The characters of a string kept in run-length form: a run of n
\* non-whitespace characters is n times "x"
RECURSIVE Letters(_)
Letters(s) ==
    IF s = << >> THEN << >>
    ELSE LET c == IF Head(s).k = "txt" THEN "x"
                  ELSE IF Head(s).k = "sp" THEN " " ELSE "\n"
         IN [i \in 1..Head(s).n |-> c] \o Letters(Tail(s))

\* section.content: what generateObject answered is a string of characters,
\* the content of a fallback section is its chunk, in run-length form
ContentOf(section) ==
    IF section.fromAi THEN section.content ELSE Letters(section.content)

\* String.prototype.includes: t occurs in s; the empty string occurs in all
Includes(s, t) ==
    \E i \in 0..(Len(s) - Len(t)) : SubSeq(s, i + 1, i + Len(t)) = t

\* first index from i on that holds no blank
RECURSIVE SkipBlanks(_, _)
SkipBlanks(s, i) ==
    IF i <= Len(s) /\ s[i] = " " THEN SkipBlanks(s, i + 1) ELSE i

\* s.split(/\s+/) from index i on, `word` being the piece read so far: a
\* stretch of blanks ends a piece, also the empty one at either end of s
RECURSIVE SplitWordsFrom(_, _, _)
SplitWordsFrom(s, i, word) ==
    IF i > Len(s) THEN << word >>
    ELSE IF s[i] = " " THEN << word >> \o SplitWordsFrom(s, SkipBlanks(s, i), << >>)
    ELSE SplitWordsFrom(s, i + 1, Append(word, s[i]))

SplitWords(s) == SplitWordsFrom(s, 1, << >>)

\* Scores are kept in units of 1/6000, so that the two fractions of lines 258
\* and 262 are whole numbers for up to six words or keywords: 0.4 is 2400,
\* 0.3 is 1800, 0.2 is 1200, 0.1 is 600, 0.05 is 300 and 1 is 6000.
ScoreOne == 6000

Min(a, b) == IF a <= b THEN a ELSE b
Max(a, b) == IF a >= b THEN a ELSE b

\* lines 252-276: the terms of the score, before the cap
ScoreTerms(section, query, titleWeight) ==
    LET queryLower == ToLowerCase(query.query)
        contentLower == ToLowerCase(ContentOf(section))
        titleLower == ToLowerCase(section.title)
        queryWords == SplitWords(queryLower)
        matchedWords ==
            Len(SelectSeq(queryWords, LAMBDA word : Includes(contentLower, word)))
        matchedKeywords ==
            Len(SelectSeq(section.keywords,
                          LAMBDA keyword : Includes(queryLower, ToLowerCase(keyword))))
    IN (IF Includes(titleLower, queryLower) THEN titleWeight ELSE 0)
       + (matchedWords * 1800) \div Len(queryWords)
       + (matchedKeywords * 1200) \div Max(Len(section.keywords), 1)
       + (IF section.priority = "high" THEN 600
          ELSE IF section.priority = "medium" THEN 300 ELSE 0)
       + (IF /\ query.ticketContext # << >>
             /\ query.ticketContext[1].urgency = "urgent"
             /\ section.priority = "high"
          THEN 600 ELSE 0)
       + (IF /\ query.ticketContext # << >>
             /\ query.ticketContext[1].sentiment = "negative"
             /\ section.category = "Escalation"
          THEN 600 ELSE 0)

\* mutant: the cap of line 278 is left out
RelevanceScoreUncapped(section, query) ==
    ScoreTerms(section, query, 2400)

\* mutant: a title match weighs 0.3
RelevanceScoreLightTitle(section, query) ==
    Min(ScoreTerms(section, query, 1800), ScoreOne)

\* lines 246-279
CalculateRelevanceScore(section, query) ==
    Min(ScoreTerms(section, query, 2400), ScoreOne)

\* lines 281-284
FindMatchedKeywords(section, query) ==
    LET queryLower == ToLowerCase(query)
        kept == {i \in 1..Len(section.keywords) :
                    Includes(queryLower, ToLowerCase(section.keywords[i]))}
        Nth(n) == CHOOSE i \in kept : Cardinality({j \in kept : j < i}) = n - 1
    IN [n \in 1..Cardinality(kept) |-> section.keywords[Nth(n)]]

\* the sections and queries the score is computed for
QueryChars == {"a", "B", " "}

ScoreQueries ==
    [query : UNION {[1..n -> QueryChars] : n \in 0..MaxQueryLen},
     ticketContext :
        { << >> } \cup
        { << [urgency |-> u, sentiment |-> t] >> :
             u \in {"urgent", "low"}, t \in {"negative", "positive"} }]

ScoreSections ==
    [id : {SectionId(1)},
     title : { << >>, << "a" >>, << "A", " ", "b" >> },
     content : { << >>, << "a" >>, << "b", " ", "A" >> },
     category : {"Escalation", "General"},
     keywords : { << >>, << << "a" >> >>, << << "A" >>, << "b" >> >>, << << >> >> },
     priority : {"low", "medium", "high"},
     fromAi : {TRUE}]

\* calculateRelevanceScore(section, query) is called and returns
ScoreSection ==
    /\ search.pc = "score"
    /\ response' = [op |-> "calculateRelevanceScore", section |-> search.section,
                    query |-> search.query,
                    score |-> CalculateRelevanceScore(search.section, search.query)]
    /\ search' = IdleCall
    /\ UNCHANGED <<mvars, recommendations, calls, clock, batch, analyze, cvars>>

----------------------------------------------------------------------------
(* OperationsManualProcessor.searchManual                                  *)

\* a result of the search (lines 214-218 and 294-298)
SearchResult(section, query) ==
    [section |-> section,
     relevanceScore |-> CalculateRelevanceScore(section, query),
     matchedKeywords |-> FindMatchedKeywords(section, query.query)]

\* r goes behind every result that scores at least as much
RECURSIVE InsertByScore(_, _)
InsertByScore(sorted, r) ==
    IF sorted = << >> THEN << r >>
    ELSE IF Head(sorted).relevanceScore >= r.relevanceScore
         THEN << Head(sorted) >> \o InsertByScore(Tail(sorted), r)
         ELSE << r >> \o sorted

\* results.sort((a, b) => b.relevanceScore - a.relevanceScore); the sort keeps
\* results of one score in their order
RECURSIVE SortByScore(_)
SortByScore(results) ==
    IF results = << >> THEN << >>
    ELSE InsertByScore(SortByScore(SubSeq(results, 1, Len(results) - 1)),
                       results[Len(results)])

\* Array.prototype.slice(0, n)
Slice(seq, n) == SubSeq(seq, 1, Min(n, Len(seq)))

\* the results kept from the ranking response, and from the fallback scan
RankedLimit == 5
FallbackLimit == 5

\* The ranking response is kept as the numbers /\b(\d+)\b/g finds in it, in
\* their order.  Lines 235-240 from index i on: the numbers above 0, each once
RECURSIVE DistinctPositive(_, _, _)
DistinctPositive(matches, i, numbers) ==
    IF i > Len(matches) THEN numbers
    ELSE LET num == matches[i] IN
         IF num > 0 /\ \A j \in 1..Len(numbers) : numbers[j] # num
         THEN DistinctPositive(matches, i + 1, Append(numbers, num))
         ELSE DistinctPositive(matches, i + 1, numbers)

\* mutant: a number is taken as often as the response names it
ExtractSectionNumbersRepeating(matches) ==
    Slice(SelectSeq(matches, LAMBDA num : num > 0), RankedLimit)

\* lines 230-244
ExtractSectionNumbers(matches) ==
    Slice(DistinctPositive(matches, 1, << >>), RankedLimit)

\* lines 205-220 from index i of sectionNumbers on
RECURSIVE ResolveSections(_, _, _, _)
ResolveSections(manual, query, sectionNumbers, i) ==
    IF i > Len(sectionNumbers) THEN << >>
    ELSE (IF sectionNumbers[i] <= Len(manual.sections)
          THEN << SearchResult(manual.sections[sectionNumbers[i]], query) >>
          ELSE << >>)
         \o ResolveSections(manual, query, sectionNumbers, i + 1)

\* mutant: the results stay in the order of the ranking response
RankedSearchUnsorted(manual, query, matches) ==
    ResolveSections(manual, query, ExtractSectionNumbers(matches), 1)

\* lines 204-222
RankedSearch(manual, query, matches) ==
    SortByScore(ResolveSections(manual, query, ExtractSectionNumbers(matches), 1))

\* lines 290-300 from section i on
RECURSIVE ScanSections(_, _, _)
ScanSections(manual, query, i) ==
    IF i > Len(manual.sections) THEN << >>
    ELSE (IF CalculateRelevanceScore(manual.sections[i], query) > 600
          THEN << SearchResult(manual.sections[i], query) >>
          ELSE << >>)
         \o ScanSections(manual, query, i + 1)

\* mutant: the scan is cut to five results before it is sorted
FallbackSearchCutFirst(manual, query) ==
    SortByScore(Slice(ScanSections(manual, query, 1), FallbackLimit))

\* lines 286-303
FallbackSearch(manual, query) ==
    Slice(SortByScore(ScanSections(manual, query, 1)), FallbackLimit)

\* mutant: only an unknown id is refused
SearchRefusedUnknownOnly(store, id) ==
    MapGet(store, id) = << >>

\* line 161
SearchRefused(store, id) ==
    \/ MapGet(store, id) = << >>
    \/ MapGet(store, id)[1].status # "ready"

\* what generateObject answered for the chunks of the manuals that are
\* searched: a section whose title is a query, one that matches that query in
\* title, content and keyword, and one that matches it nowhere
SectionObjects ==
    { [title |-> << "a" >>, content |-> << "b" >>, category |-> "General",
       keywords |-> << >>, priority |-> "low"],
      [title |-> << "A" >>, content |-> << "a" >>, category |-> "Escalation",
       keywords |-> << << "a" >> >>, priority |-> "high"],
      [title |-> << "b" >>, content |-> << "b" >>, category |-> "General",
       keywords |-> << << "b" >> >>, priority |-> "medium"] }

\* the sections of a manual all of whose extractions succeeded
SectionLists ==
    UNION { { [i \in 1..n |-> AiSection(i, objects[i])] :
                objects \in [1..n -> SectionObjects] } : n \in 0..MaxSections }

\* the stores a search meets: no manual, a manual in error, a ready manual
SearchStores ==
    { << >>, << Entry("M1", "M1", "error", << >>) >> }
    \cup { << Entry("M1", "M1", "ready", secs) >> : secs \in SectionLists }

\* ManualQuery (lines 24-32); an absent ticketContext is the empty sequence
SearchQueries ==
    [query : { << >>, << "a" >>, << "A", " ", "b" >> },
     ticketContext : { << >>, << [urgency |-> "urgent", sentiment |-> "negative"] >> }]

\* what the ranking response may list: nothing, one section, two against
\* their order, a repetition, numbers that name no section, and every section
\* from the last to the first
RankingResponses ==
    { << >>, << 1 >>, << 2, 1 >>, << 1, 1, 2 >>, << 0, MaxSections + 1 >>,
      [i \in 1..MaxSections |-> MaxSections + 1 - i] }

\* the value searchManual resolves to, with the path it took, the number of
\* generateText calls it made and the numbers the ranking response listed
SearchResponse(id, query, path, calls_, ranking, result) ==
    [op |-> "searchManual", manualId |-> id, query |-> query, path |-> path,
     generationCalls |-> calls_, ranking |-> ranking, result |-> result]

\* searchManual(manualId, query) up to its first await: refused at line 162,
\* or the prompt is built from the manual and generateText is awaited
CallSearchManual(id, query) ==
    IF SearchRefused(manuals, id)
    THEN /\ response' = SearchResponse(id, query, "refused", 0, << >>, << >>)
         /\ search' = IdleCall
    ELSE /\ search' = [pc |-> "ranking", manualId |-> id,
                        manual |-> MapGet(manuals, id)[1], query |-> query]
         /\ response' = NoResponse

\* searchManual is called with the id of a manual or an unknown id
SearchManual ==
    /\ search.pc = "idle"
    /\ \E id \in {"M1", UnknownManualId}, query \in SearchQueries :
          CallSearchManual(id, query)
    /\ UNCHANGED <<mvars, recommendations, calls, clock, batch, analyze, cvars>>

\* generateText answers: lines 204-222
RankingReturns ==
    /\ search.pc = "ranking"
    /\ \E matches \in RankingResponses :
          response' = SearchResponse(search.manualId, search.query, "ranked", 1, matches,
                                     RankedSearch(search.manual, search.query, matches))
    /\ search' = IdleCall
    /\ UNCHANGED <<mvars, recommendations, calls, clock, batch, analyze, cvars>>

\* generateText fails: lines 223-227
RankingFails ==
    /\ search.pc = "ranking"
    /\ response' = SearchResponse(search.manualId, search.query, "fallback", 1, << >>,
                                  FallbackSearch(search.manual, search.query))
    /\ search' = IdleCall
    /\ UNCHANGED <<mvars, recommendations, calls, clock, batch, analyze, cvars>>

----------------------------------------------------------------------------
(* SentimentAnalyzer.analyzeTicket / fallbackAnalysis                      *)

\* line 407, in the order of the array
NegativeWords ==
    << << "p", "r", "o", "b", "l", "e", "m" >>,
       << "i", "s", "s", "u", "e" >>,
       << "b", "r", "o", "k", "e", "n" >>,
       << "e", "r", "r", "o", "r" >>,
       << "b", "u", "g" >>,
       << "f", "r", "u", "s", "t", "r", "a", "t", "e", "d" >>,
       << "a", "n", "g", "r", "y" >>,
       << "t", "e", "r", "r", "i", "b", "l", "e" >>,
       << "a", "w", "f", "u", "l" >> >>

\* line 408
PositiveWords ==
    << << "g", "r", "e", "a", "t" >>,
       << "e", "x", "c", "e", "l", "l", "e", "n", "t" >>,
       << "l", "o", "v", "e" >>,
       << "a", "m", "a", "z", "i", "n", "g" >>,
       << "p", "e", "r", "f", "e", "c", "t" >>,
       << "t", "h", "a", "n", "k" >>,
       << "a", "p", "p", "r", "e", "c", "i", "a", "t", "e" >>,
       << "w", "o", "n", "d", "e", "r", "f", "u", "l" >> >>

\* the words the subjects and descriptions of the tickets are written with:
\* words of both lists, two of them capitalised, two that hold a word of a
\* list inside a longer one, and one that is in neither list
TicketWords ==
    { << "p", "r", "o", "b", "l", "e", "m" >>,
      << "b", "r", "o", "k", "e", "n" >>,
      << "a", "n", "g", "r", "y" >>,
      << "g", "r", "e", "a", "t" >>,
      << "t", "h", "a", "n", "k" >>,
      << "l", "o", "v", "e" >>,
      << "G", "r", "e", "a", "t" >>,
      << "P", "r", "o", "b", "l", "e", "m" >>,
      << "t", "h", "a", "n", "k", "s" >>,
      << "b", "u", "g", "s" >>,
      << "o", "k" >> }

\* words[i..] with a blank between two words
RECURSIVE JoinWords(_, _)
JoinWords(words, i) ==
    IF i > Len(words) THEN << >>
    ELSE words[i] \o (IF i < Len(words) THEN << " " >> ELSE << >>)
                  \o JoinWords(words, i + 1)

\* mutant: a tie counts as positive
SentimentOfTiePositive(positiveCount, negativeCount) ==
    IF positiveCount >= negativeCount THEN [sentiment |-> "positive", score |-> 70]
    ELSE [sentiment |-> "negative", score |-> 30]

\* lines 413-422 from the two counts; scores and confidences are kept in
\* hundredths
SentimentOf(positiveCount, negativeCount) ==
    IF positiveCount > negativeCount THEN [sentiment |-> "positive", score |-> 70]
    ELSE IF negativeCount > positiveCount THEN [sentiment |-> "negative", score |-> 30]
    ELSE [sentiment |-> "neutral", score |-> 50]

\* lines 403-435
FallbackAnalysis(subject, description) ==
    LET txt == ToLowerCase(subject \o << " " >> \o description)
        negatives == SelectSeq(NegativeWords, LAMBDA word : Includes(txt, word))
        positives == SelectSeq(PositiveWords, LAMBDA word : Includes(txt, word))
        s == SentimentOf(Len(positives), Len(negatives))
    IN [sentiment |-> s.sentiment,
        score |-> s.score,
        confidence |-> 60,
        emotions |-> IF s.sentiment = "negative" THEN << "frustrated" >>
                     ELSE IF s.sentiment = "positive" THEN << "satisfied" >>
                     ELSE << "neutral" >>,
        urgency |-> IF Len(negatives) > 2 THEN "high" ELSE "medium",
        keyPhrases |-> negatives \o positives,
        generated |-> FALSE]

\* what generateObject may answer for a ticket (sentimentSchema)
AiAnalyses ==
    { [sentiment |-> "negative", score |-> 10, confidence |-> 90,
       emotions |-> << "angry" >>, urgency |-> "urgent", keyPhrases |-> << >>,
       generated |-> TRUE] }

\* analyzeTicket(subject, description) builds the prompt and awaits
\* generateObject (lines 344-365)
AnalyzeTicket ==
    /\ analyze.pc = "called"
    /\ analyze' = [analyze EXCEPT !.pc = "generate"]
    /\ response' = NoResponse
    /\ UNCHANGED <<mvars, recommendations, calls, clock, search, batch, cvars>>

\* generateObject answers: line 367
AnalyzeReturns ==
    /\ analyze.pc = "generate"
    /\ \E object \in AiAnalyses :
          response' = [op |-> "analyzeTicket", subject |-> analyze.subject,
                       description |-> analyze.description, analysis |-> object]
    /\ analyze' = IdleCall
    /\ UNCHANGED <<mvars, recommendations, calls, clock, search, batch, cvars>>

\* generateObject fails: lines 368-372
AnalyzeFails ==
    /\ analyze.pc = "generate"
    /\ response' = [op |-> "analyzeTicket", subject |-> analyze.subject,
                    description |-> analyze.description,
                    analysis |-> FallbackAnalysis(analyze.subject, analyze.description)]
    /\ analyze' = IdleCall
    /\ UNCHANGED <<mvars, recommendations, calls, clock, search, batch, cvars>>

----------------------------------------------------------------------------
(* SentimentAnalyzer.analyzeBatch                                          *)

\* line 381
BatchSize == 5

\* the k-th ticket of a request, under the id `id`: the tickets say, in turn,
\* "problem", "great" and "ok"
BatchTicket(k, id) ==
    [id |-> id,
     subject |-> IF k % 3 = 1 THEN << "p", "r", "o", "b", "l", "e", "m" >>
                 ELSE IF k % 3 = 2 THEN << "g", "r", "e", "a", "t" >>
                 ELSE << "o", "k" >>,
     description |-> << >>]

\* the requests: N tickets with the ids 1..N, and, from two tickets on, the
\* same with the id of the first ticket given to the last one as well
BatchRequests ==
    { [k \in 1..n |-> BatchTicket(k, k)] : n \in 0..MaxTickets }
    \cup { [k \in 1..n |-> BatchTicket(k, IF k = n THEN 1 ELSE k)] : n \in 2..MaxTickets }

\* mutant: slice(i, i + batchSize - 1)
BatchOfShort(tickets, i) ==
    (i + 1)..Min(i + BatchSize - 1, Len(tickets))

\* line 383: the positions (from 1) of tickets.slice(i, i + batchSize)
BatchOf(tickets, i) ==
    (i + 1)..Min(i + BatchSize, Len(tickets))

\* lines 384-387: an analyzeTicket call is started for every ticket of the
\* batch; none has resolved yet
StartBatch(tickets, i, results, computed, delays) ==
    [pc |-> "batch", tickets |-> tickets, i |-> i,
     pending |-> [k \in BatchOf(tickets, i) |-> << >>],
     results |-> results, computed |-> computed, delays |-> delays]

\* lines 390-392: results.set(id, analysis) for the positions from..to of the
\* batch, in the order of the batch
RECURSIVE SetResults(_, _, _, _, _)
SetResults(results, tickets, analyses, from, to) ==
    IF from > to THEN results
    ELSE SetResults(StoreSet(results, tickets[from].id, analyses[from][1]),
                    tickets, analyses, from + 1, to)

\* mutant: the delay is awaited after a last batch that is full
DelayDueAfterFull(tickets, i) == i + BatchSize <= Len(tickets)

\* line 395: another batch follows
DelayDue(tickets, i) == i + BatchSize < Len(tickets)

\* line 400, with what the call did on the way
BatchResponse(tickets, results, computed, delays) ==
    [op |-> "analyzeBatch", tickets |-> tickets, results |-> results,
     computed |-> computed, delays |-> delays]

\* analyzeBatch(tickets) up to its first await (lines 378-389)
AnalyzeBatch ==
    /\ batch.pc = "called"
    /\ IF Len(batch.tickets) = 0
       THEN /\ response' = BatchResponse(batch.tickets, NoStore, << >>, 0)
            /\ batch' = IdleCall
       ELSE /\ batch' = StartBatch(batch.tickets, 0, NoStore, << >>, 0)
            /\ response' = NoResponse
    /\ UNCHANGED <<mvars, recommendations, calls, clock, search, analyze, cvars>>

\* One analyzeTicket call of the batch resolves, with the generated analysis
\* or with the heuristic one.  When it is the last of the batch, Promise.all
\* resolves: the results are set (lines 390-392), and the delay is awaited
\* (lines 395-397) or the map is returned (line 400).
TicketAnalyzed ==
    /\ batch.pc = "batch"
    /\ \E k \in DOMAIN batch.pending :
          /\ batch.pending[k] = << >>
          /\ \E analysis \in AiAnalyses \cup
                   {FallbackAnalysis(batch.tickets[k].subject,
                                     batch.tickets[k].description)} :
                LET pending == [batch.pending EXCEPT ![k] = << analysis >>]
                    first == batch.i + 1
                    last == batch.i + Cardinality(DOMAIN pending)
                    results == SetResults(batch.results, batch.tickets, pending,
                                          first, last)
                    computed == batch.computed \o [n \in 1..(last - first + 1) |->
                                                      pending[first + n - 1][1]]
                IN IF \E j \in DOMAIN pending : pending[j] = << >>
                   THEN /\ batch' = [batch EXCEPT !.pending = pending]
                        /\ response' = NoResponse
                   ELSE IF DelayDue(batch.tickets, batch.i)
                   THEN /\ batch' = [batch EXCEPT !.pc = "delay", !.pending = pending,
                                                  !.results = results,
                                                  !.computed = computed]
                        /\ response' = NoResponse
                   ELSE /\ response' = BatchResponse(batch.tickets, results, computed,
                                                     batch.delays)
                        /\ batch' = IdleCall
    /\ UNCHANGED <<mvars, recommendations, calls, clock, search, analyze, cvars>>

\* the 1000 ms timer of line 396 fires: the next batch is started
BatchDelayDone ==
    /\ batch.pc = "delay"
    /\ batch' = StartBatch(batch.tickets, batch.i + BatchSize, batch.results,
                           batch.computed, batch.delays + 1)
    /\ response' = NoResponse
    /\ UNCHANGED <<mvars, recommendations, calls, clock, search, analyze, cvars>>

----------------------------------------------------------------------------
(* The route handlers (src/app/api)                                        *)

\* A field of a request is the empty sequence when it is absent and << v >>
\* when it is given with the value v.  The body of a JSON request is an
\* object of fields, the JSON value null, or something request.json()
\* cannot parse; a multipart request is a form or cannot be parsed.
Absent == << >>

JsonBodies(objects) ==
    {[kind |-> "unparsable"], [kind |-> "null"]}
    \cup {[kind |-> "object", fields |-> o] : o \in objects}

\* what a handler returns: NextResponse.json(body, {status}); `error` says
\* that the body is {error: string}
HttpAnswer(route, request, status) ==
    [route |-> route, request |-> request, status |-> status,
     error |-> status >= 400]

\* the handler awaits the core operation it has called
HttpAwaiting(route, request) ==
    [route |-> route, request |-> request, status |-> 0, error |-> FALSE]

\* the handler returns without having called the core
Answer(route, request, status) ==
    /\ http' = HttpAnswer(route, request, status)
    /\ response' = NoResponse
    /\ UNCHANGED <<mvars, recommendations, calls, clock, search, batch, analyze,
                   view, dashboard>>

\* `await request.json()` and the destructuring of the body: an unparsable
\* body and the body null throw, which the catch block answers with 500
BodyThrows(body) == body.kind # "object"

\* no call of the core is in flight and no handler awaits one
AllQuiet ==
    /\ mpc = "idle"
    /\ search.pc = "idle"
    /\ batch.pc = "idle"
    /\ analyze.pc = "idle"
    /\ \A s \in Slots : calls[s].pc = "idle"
    /\ http.route # "none" => http.status # 0

\* POST /upload-manual (upload-manual/route.ts lines 4-39)
UploadForms ==
    {[kind |-> "unparsable"]}
    \cup [kind : {"form"},
          file : {Absent, << << >> >>, << << Sp >> >>, << << Txt(1) >> >>},
          name : {Absent, << "" >>, << "n" >>}]

\* `manual-${Date.now()}-${random}` of line 26: the id the handler makes up
SynthesizedIds == {"M1"}

\* mutant: the name is not asked for
UploadLacksFileOnly(form) ==
    \/ form.file = Absent
    \/ Trim(form.file[1]) = << >>

\* lines 10-23
UploadLacks(form) ==
    \/ form.file = Absent
    \/ form.name = Absent \/ form.name[1] = ""
    \/ Trim(form.file[1]) = << >>

PostUploadManual ==
    /\ AllQuiet
    /\ \E form \in UploadForms :
          IF form.kind = "unparsable" THEN Answer("upload-manual", form, 500)
          ELSE IF UploadLacks(form) THEN Answer("upload-manual", form, 400)
          ELSE /\ \E id \in SynthesizedIds : CallProcessManualText(id, form.file[1])
               /\ http' = HttpAwaiting("upload-manual", form)
               /\ UNCHANGED <<recommendations, calls, clock, search, batch, analyze,
                              view, dashboard>>

\* GET /manuals (manuals/route.ts lines 4-12)
GetManuals ==
    /\ AllQuiet
    /\ http' = HttpAnswer("manuals", [kind |-> "get"], 200)
    /\ response' = [op |-> "getAllManuals",
                    result |-> [i \in 1..Len(manuals) |-> ManualOf(manuals[i])]]
    /\ UNCHANGED <<mvars, recommendations, calls, clock, search, batch, analyze,
                   view, dashboard>>

\* DELETE /manuals?id= (manuals/route.ts lines 14-34)
DeleteRequests ==
    [kind : {"delete"}, id : {Absent, << "" >>, << "M1" >>, << UnknownManualId >>}]

DeleteLacks(request) == request.id = Absent \/ request.id[1] = ""

DeleteManuals ==
    /\ AllQuiet
    /\ \E request \in DeleteRequests :
          IF DeleteLacks(request) THEN Answer("manuals", request, 400)
          ELSE LET d == DeleteManualResult(manuals, request.id[1])
               IN /\ manuals' = d.store
                  /\ response' = [op |-> "deleteManual", manualId |-> request.id[1],
                                  result |-> d.result]
                  /\ http' = HttpAnswer("manuals", request,
                                        IF d.result THEN 200 ELSE 404)
                  /\ UNCHANGED <<text, manualId, mpc, chunks, sections,
                                 recommendations, calls, clock, search, batch,
                                 analyze, view, dashboard>>

\* POST /search-manual (part_000 lines 4-23)
SearchBodies ==
    JsonBodies([manualId : {Absent, << "M1" >>, << UnknownManualId >>},
                query : {Absent, << << >> >>, << << "a" >> >>}])

SearchLacks(body) ==
    \/ body.fields.manualId = Absent \/ body.fields.manualId[1] = ""
    \/ body.fields.query = Absent \/ body.fields.query[1] = << >>

PostSearchManual ==
    /\ AllQuiet
    /\ \E body \in SearchBodies :
          IF BodyThrows(body) THEN Answer("search-manual", body, 500)
          ELSE IF SearchLacks(body) THEN Answer("search-manual", body, 400)
          ELSE /\ CallSearchManual(body.fields.manualId[1],
                                   [query |-> body.fields.query[1],
                                    ticketContext |-> << >>])
               /\ http' = HttpAwaiting("search-manual", body)
               /\ UNCHANGED <<mvars, recommendations, calls, clock, batch, analyze,
                              view, dashboard>>

\* POST /analyze-single-ticket (analyze-single-ticket/route.ts lines 4-20)
SingleBodies ==
    JsonBodies([subject : {Absent, << << >> >>, << << "o", "k" >> >>},
                description : {Absent, << << >> >>,
                               << << "b", "r", "o", "k", "e", "n" >> >>}])

SingleLacks(body) ==
    \/ body.fields.subject = Absent \/ body.fields.subject[1] = << >>
    \/ body.fields.description = Absent \/ body.fields.description[1] = << >>

PostAnalyzeSingleTicket ==
    /\ AllQuiet
    /\ \E body \in SingleBodies :
          IF BodyThrows(body) THEN Answer("analyze-single-ticket", body, 500)
          ELSE IF SingleLacks(body) THEN Answer("analyze-single-ticket", body, 400)
          ELSE /\ analyze' = [pc |-> "called", subject |-> body.fields.subject[1],
                              description |-> body.fields.description[1]]
               /\ response' = NoResponse
               /\ http' = HttpAwaiting("analyze-single-ticket", body)
               /\ UNCHANGED <<mvars, recommendations, calls, clock, search, batch,
                              view, dashboard>>

\* POST /analyze-sentiment (analyze-single-ticket/route.ts lines 25-48); a
\* tickets field is an array of tickets or a value that is no array
BatchBodies ==
    JsonBodies([tickets : {Absent}
                          \cup {<< [isArray |-> FALSE, value |-> << >>] >>}
                          \cup {<< [isArray |-> TRUE, value |-> ts] >> :
                                  ts \in {<< >>, << BatchTicket(1, 1) >>}}])

BatchLacks(body) ==
    body.fields.tickets = Absent \/ ~body.fields.tickets[1].isArray

PostAnalyzeSentiment ==
    /\ AllQuiet
    /\ \E body \in BatchBodies :
          IF BodyThrows(body) THEN Answer("analyze-sentiment", body, 500)
          ELSE IF BatchLacks(body) THEN Answer("analyze-sentiment", body, 400)
          ELSE /\ batch' = [pc |-> "called", tickets |-> body.fields.tickets[1].value]
               /\ response' = NoResponse
               /\ http' = HttpAwaiting("analyze-sentiment", body)
               /\ UNCHANGED <<mvars, recommendations, calls, clock, search, analyze,
                              view, dashboard>>

\* POST /generate-recommendations (generate-recommendations/route.ts lines
\* 4-23); the context of a request that is served is that of an urgent ticket
\* of negative sentiment
GenerateBodies ==
    JsonBodies([context : {Absent}
                          \cup {<< c >> :
                                  c \in [ticket : {Absent, << "T1" >>},
                                         sentimentAnalysis :
                                            {Absent,
                                             << [sentiment |-> "negative",
                                                 urgency |-> "urgent"] >>}]}])

GenerateLacks(body) ==
    \/ body.fields.context = Absent
    \/ body.fields.context[1].ticket = Absent
    \/ body.fields.context[1].sentimentAnalysis = Absent

\* the RecommendationContext the engine is called with
ContextOf(body) ==
    LET c == body.fields.context[1]
    IN [ticket |-> c.ticket[1], sentiment |-> c.sentimentAnalysis[1].sentiment,
        urgency |-> c.sentimentAnalysis[1].urgency, hasGuidance |-> FALSE,
        emotionsIsArray |-> TRUE]

PostGenerateRecommendations ==
    /\ AllQuiet
    /\ \E body \in GenerateBodies :
          IF BodyThrows(body) THEN Answer("generate-recommendations", body, 500)
          ELSE IF GenerateLacks(body)
          THEN Answer("generate-recommendations", body, 400)
          ELSE /\ CallGenerateRecommendations(1, ContextOf(body))
               /\ http' = HttpAwaiting("generate-recommendations", body)
               /\ UNCHANGED <<mvars, clock, search, batch, analyze, view, dashboard>>

\* POST /execute-action (execute-action/route.ts lines 4-20)
ExecuteBodies ==
    JsonBodies([ticketId : {Absent, << "T1" >>},
                recommendationId : {Absent, << RecId("T1", "primary", 0) >>},
                stepId : {Absent, << StepId(1) >>}])

\* line 9
ExecuteLacks(body) ==
    \/ body.fields.ticketId = Absent
    \/ body.fields.recommendationId = Absent
    \/ body.fields.stepId = Absent

PostExecuteAction ==
    /\ AllQuiet
    /\ \E body \in ExecuteBodies :
          IF BodyThrows(body) THEN Answer("execute-action", body, 500)
          ELSE IF ExecuteLacks(body) THEN Answer("execute-action", body, 400)
          ELSE LET f == body.fields IN
               /\ response' = [op |-> "executeAction", ticketId |-> f.ticketId[1],
                               recommendationId |-> f.recommendationId[1],
                               stepId |-> f.stepId[1],
                               result |-> ExecuteActionResult(f.ticketId[1],
                                              f.recommendationId[1], f.stepId[1])]
               /\ http' = HttpAnswer("execute-action", body, 200)
               /\ UNCHANGED <<mvars, recommendations, calls, clock, search, batch,
                              analyze, view, dashboard>>

\* POST /recommendation-feedback (recommendation-feedback/route.ts lines 4-20)
FeedbackBodies ==
    JsonBodies([ticketId : {Absent, << "T1" >>},
                recommendationId : {Absent, << RecId("T1", "primary", 0) >>},
                feedback : {Absent} \cup {<< f >> : f \in Feedbacks}])

FeedbackLacks(body) ==
    \/ body.fields.ticketId = Absent
    \/ body.fields.recommendationId = Absent
    \/ body.fields.feedback = Absent

PostRecommendationFeedback ==
    /\ AllQuiet
    /\ \E body \in FeedbackBodies :
          IF BodyThrows(body) THEN Answer("recommendation-feedback", body, 500)
          ELSE IF FeedbackLacks(body) THEN Answer("recommendation-feedback", body, 400)
          ELSE LET f == body.fields IN
               /\ recommendations' =
                     FeedbackStore(recommendations, f.ticketId[1],
                                   f.recommendationId[1], f.feedback[1])
               /\ response' = [op |-> "updateRecommendationFeedback",
                               ticketId |-> f.ticketId[1],
                               recommendationId |-> f.recommendationId[1],
                               result |-> TRUE]
               /\ http' = HttpAnswer("recommendation-feedback", body, 200)
               /\ UNCHANGED <<mvars, calls, clock, search, batch, analyze, view,
                              dashboard>>

\* the core operation a handler awaits
CoreOf(route) ==
    CASE route = "upload-manual" -> "processManualText"
      [] route = "search-manual" -> "searchManual"
      [] route = "analyze-single-ticket" -> "analyzeTicket"
      [] route = "analyze-sentiment" -> "analyzeBatch"
      [] route = "generate-recommendations" -> "generateRecommendations"

\* the awaited core operation has returned: the handler answers with its
\* result (the core operations catch their failures themselves)
RouteReplies ==
    /\ http.route # "none"
    /\ http.status = 0
    /\ response.op = CoreOf(http.route)
    /\ http' = HttpAnswer(http.route, http.request, 200)
    /\ UNCHANGED <<mvars, recommendations, calls, clock, search, batch, analyze,
                   view, dashboard, response>>

----------------------------------------------------------------------------
(* ActionRecommendations (action-recommendations.tsx)                      *)

\* the `context` prop: the dashboard builds it from a ticket whose sentiment
\* analysis is complete
ViewContexts ==
    {ctx \in Contexts : /\ ctx.sentiment = "negative"
                        /\ ctx.emotionsIsArray
                        /\ ~ctx.hasGuidance
                        /\ ctx.urgency \in {"low", "urgent"}}

\* lines 19-23: the state of the component when it is mounted; `inflight` are
\* the execute-action requests awaiting their answer, `executed` the
\* (recommendation, step) pairs reported through onActionExecuted
MountedView(ctx) ==
    [mounted |-> TRUE, context |-> ctx, isLoading |-> FALSE,
     recommendations |-> << >>, selectedRecommendation |-> << >>,
     completedSteps |-> {}, executingSteps |-> {}, inflight |-> {},
     executed |-> {}]

\* line 165: recommendations.find((r) => r.id === selectedRecommendation);
\* no recommendation (undefined) is the empty sequence
SelectedRec ==
    IF view.selectedRecommendation = << >> THEN << >>
    ELSE LET r == FindIndex(view.recommendations, view.selectedRecommendation[1])
         IN IF r = 0 THEN << >> ELSE << view.recommendations[r] >>

\* lines 131, 149 and 216: the details of the selected recommendation are
\* rendered
DetailsShown ==
    /\ view.mounted
    /\ ~view.isLoading
    /\ view.recommendations # << >>
    /\ SelectedRec # << >>

\* line 267
IsCompleted(step) == step.id \in view.completedSteps

\* line 268
IsExecuting(step) == step.id \in view.executingSteps

\* line 269, for the step at position index (from 1)
CanExecute(steps, index) ==
    IF index = 1 THEN TRUE ELSE steps[index - 1].id \in view.completedSteps

\* line 300: the Execute button of the step at position index is rendered
ExecuteShown(index) ==
    /\ DetailsShown
    /\ index \in 1..Len(SelectedRec[1].steps)
    /\ ~IsCompleted(SelectedRec[1].steps[index])
    /\ CanExecute(SelectedRec[1].steps, index)

\* line 341: `${completedSteps.size} of ${selectedRec.steps.length}`
CompletedShown == Cardinality(view.completedSteps)

\* lines 25-39: the effect on `context`, or the Try Again button, posts the
\* context to /generate-recommendations, whose handler passes it to the engine
ViewGenerate ==
    /\ view.mounted
    /\ ~view.isLoading
    /\ calls[1].pc = "idle"
    /\ CallGenerateRecommendations(1, view.context)
    /\ view' = [view EXCEPT !.isLoading = TRUE]
    /\ UNCHANGED <<mvars, clock, search, batch, analyze, http, dashboard>>

\* lines 40-51: the answer of the route has arrived
ViewLoaded ==
    /\ view.mounted
    /\ view.isLoading
    /\ response.op = "generateRecommendations"
    /\ view' = [view EXCEPT
                  !.isLoading = FALSE,
                  !.recommendations = response.result,
                  !.selectedRecommendation =
                      IF Len(response.result) > 0
                      THEN << response.result[1].id >> ELSE @]
    /\ response' = NoResponse
    /\ UNCHANGED <<mvars, recommendations, calls, clock, search, batch, analyze,
                   http, dashboard>>

\* line 183: a card of the selector is clicked
SelectRecommendation ==
    /\ view.mounted
    /\ ~view.isLoading
    /\ \E r \in 1..Len(view.recommendations) :
          view' = [view EXCEPT
                     !.selectedRecommendation = << view.recommendations[r].id >>]
    /\ response' = NoResponse
    /\ UNCHANGED <<mvars, recommendations, calls, clock, search, batch, analyze,
                   http, dashboard>>

\* lines 303-304 and 54-68: an Execute button that is rendered and not
\* disabled is clicked; the request is sent (the clicks are taken one at a
\* time, each when the request of the click before has been answered)
ExecuteStep ==
    /\ view.inflight = {}
    /\ \E index \in 1..(MaxSteps + 1) :
          /\ ExecuteShown(index)
          /\ ~IsExecuting(SelectedRec[1].steps[index])
          /\ LET stepId == SelectedRec[1].steps[index].id IN
             view' = [view EXCEPT
                        !.executingSteps = @ \cup {stepId},
                        !.inflight = @ \cup {[recommendationId |-> SelectedRec[1].id,
                                              stepId |-> stepId]}]
    /\ response' = NoResponse
    /\ UNCHANGED <<mvars, recommendations, calls, clock, search, batch, analyze,
                   http, dashboard>>

\* lines 70-85: /execute-action has run executeAction on the engine's store
\* and answered
ExecuteStepAnswered ==
    /\ \E request \in view.inflight :
          LET result == ExecuteActionResult(view.context.ticket,
                                            request.recommendationId, request.stepId)
          IN /\ view' = [view EXCEPT
                           !.completedSteps =
                               IF result.success THEN @ \cup {request.stepId} ELSE @,
                           !.executed =
                               IF result.success
                               THEN @ \cup {<< request.recommendationId, request.stepId >>}
                               ELSE @,
                           !.executingSteps = @ \ {request.stepId},
                           !.inflight = @ \ {request}]
             /\ response' = [op |-> "executeAction", ticketId |-> view.context.ticket,
                             recommendationId |-> request.recommendationId,
                             stepId |-> request.stepId, result |-> result]
    /\ UNCHANGED <<mvars, recommendations, calls, clock, search, batch, analyze,
                   http, dashboard>>

----------------------------------------------------------------------------
(* FreshdeskDashboard: ManualUpload and ManualSearch                       *)

\* freshdesk-dashboard.tsx line 503: the manualId prop of ManualSearch
DefaultManualId == "manual-default"

\* the dashboard is mounted with a ticket selected; isUploading and
\* isSearching are the states of the two panels
MountedDashboard ==
    [operationsManual |-> FALSE, isUploading |-> FALSE, isSearching |-> FALSE]

\* the files a user uploads (the button is disabled without a file and a name)
DashboardFiles ==
    { << Sp >>, << Txt(1) >>, << Txt(1000), Nl(2), Txt(1000), Txt(1) >> }

\* ManualUpload.handleUpload up to the fetch (part_003 lines 241-264), and
\* the handler of /upload-manual up to its await
HandleUpload ==
    /\ AllQuiet
    /\ ~dashboard.isUploading
    /\ ~dashboard.isSearching
    /\ \E file \in DashboardFiles :
          LET form == [kind |-> "form", file |-> << file >>, name |-> << "n" >>]
          IN IF UploadLacks(form)
             THEN /\ http' = HttpAnswer("upload-manual", form, 400)
                  /\ response' = NoResponse
                  /\ UNCHANGED mvars
             ELSE /\ \E id \in SynthesizedIds : CallProcessManualText(id, file)
                  /\ http' = HttpAwaiting("upload-manual", form)
    /\ dashboard' = [dashboard EXCEPT !.isUploading = TRUE]
    /\ UNCHANGED <<recommendations, calls, clock, search, batch, analyze, view>>

\* part_003 lines 266-289: the answer has arrived; onUploadComplete
\* (freshdesk-dashboard.tsx lines 496-498) is called when it is ok
UploadAnswered ==
    /\ dashboard.isUploading
    /\ http.route = "upload-manual"
    /\ http.status # 0
    /\ dashboard' = [dashboard EXCEPT
                       !.isUploading = FALSE,
                       !.operationsManual = IF http.status = 200 THEN TRUE ELSE @]
    /\ http' = NoHttp
    /\ response' = NoResponse
    /\ UNCHANGED <<mvars, recommendations, calls, clock, search, batch, analyze, view>>

\* ManualSearch.handleSearch up to the fetch (part_003 lines 30-46), from the
\* panel that freshdesk-dashboard.tsx line 501 renders, and the handler of
\* /search-manual up to its await
HandleSearch ==
    /\ AllQuiet
    /\ dashboard.operationsManual
    /\ ~dashboard.isUploading
    /\ ~dashboard.isSearching
    /\ \E query \in {q \in SearchQueries : q.query # << >>} :
          /\ CallSearchManual(DefaultManualId, query)
          /\ http' = HttpAwaiting("search-manual",
                                  [kind |-> "object",
                                   fields |-> [manualId |-> << DefaultManualId >>,
                                               query |-> << query.query >>]])
    /\ dashboard' = [dashboard EXCEPT !.isSearching = TRUE]
    /\ UNCHANGED <<mvars, recommendations, calls, clock, batch, analyze, view>>

\* part_003 lines 47-60: the answer has arrived
SearchAnswered ==
    /\ dashboard.isSearching
    /\ http.route = "search-manual"
    /\ http.status # 0
    /\ dashboard' = [dashboard EXCEPT !.isSearching = FALSE]
    /\ http' = NoHttp
    /\ response' = NoResponse
    /\ UNCHANGED <<mvars, recommendations, calls, clock, search, batch, analyze, view>>

----------------------------------------------------------------------------
(* Specifications                                                          *)

Sequences_(S, n) == UNION {[1..m -> S] : m \in 0..n}

\* the texts a manual is uploaded with
Texts == Sequences_(Tokens, MaxTokens)

\* processManualText has just been called with some text
InitChunks ==
    /\ text \in Texts
    /\ manualId = "M1"
    /\ mpc = "called"
    /\ chunks = << >>
    /\ sections = << >>
    /\ manuals = << >>
    /\ recommendations = NoStore
    /\ calls = [s \in Slots |-> IdleCall]
    /\ clock = 0
    /\ search = IdleCall
    /\ batch = IdleCall
    /\ analyze = IdleCall
    /\ http = NoHttp
    /\ view = NoView
    /\ dashboard = NoDashboard
    /\ response = NoResponse

NextChunks == ExtractBegin \/ ExtractOk \/ DelayDone \/ ExtractFail

SpecChunks == InitChunks /\ [][NextChunks]_vars

\* a manual store as an upload leaves it
ReadyStore ==
    << Entry("M1", "M1", "ready", << FallbackSection(1, << Txt(1) >>) >>) >>

Init ==
    /\ text = << >>
    /\ manualId = "M1"
    /\ mpc = "idle"
    /\ chunks = << >>
    /\ sections = << >>
    /\ manuals \in {<< >>, ReadyStore}
    /\ recommendations = NoStore
    /\ calls = [s \in Slots |-> IdleCall]
    /\ clock = 0
    /\ search = IdleCall
    /\ batch = IdleCall
    /\ analyze = IdleCall
    /\ http = NoHttp
    /\ view = NoView
    /\ dashboard = NoDashboard
    /\ response = NoResponse

\* the engine serves one request after the other
Next ==
    \/ GenerateStart(1)
    \/ SearchReturn(1)
    \/ PrimaryReturn(1)
    \/ AlternativeReturn(1)
    \/ EscalationReturn(1)
    \/ ExecuteAction
    \/ Tick

Spec == Init /\ [][Next]_vars

\* the manual stores a request may find: none, one manual, a failed upload
\* followed by a good one, and two good ones with M2 uploaded first
GuidanceStores ==
    { << >>,
      ReadyStore,
      << Entry("M2", "M2", "error", << >>) >> \o ReadyStore,
      << Entry("M2", "M2", "ready", << FallbackSection(1, << Txt(2) >>) >>) >>
         \o ReadyStore,
      ReadyStore
         \o << Entry("M2", "M2", "ready", << FallbackSection(1, << Txt(2) >>) >>) >> }

\* requests served one after the other over each of these stores
InitGuidance ==
    /\ text = << >>
    /\ manualId = "M1"
    /\ mpc = "idle"
    /\ chunks = << >>
    /\ sections = << >>
    /\ manuals \in GuidanceStores
    /\ recommendations = NoStore
    /\ calls = [s \in Slots |-> IdleCall]
    /\ clock = 0
    /\ search = IdleCall
    /\ batch = IdleCall
    /\ analyze = IdleCall
    /\ http = NoHttp
    /\ view = NoView
    /\ dashboard = NoDashboard
    /\ response = NoResponse

NextGuidance ==
    \/ GenerateStart(1)
    \/ SearchReturn(1)
    \/ PrimaryReturn(1)
    \/ AlternativeReturn(1)
    \/ EscalationReturn(1)

SpecGuidance == InitGuidance /\ [][NextGuidance]_vars

\* the component is mounted for a ticket; the engine serves its requests,
\* within one millisecond
InitView ==
    /\ text = << >>
    /\ manualId = "M1"
    /\ mpc = "idle"
    /\ chunks = << >>
    /\ sections = << >>
    /\ manuals = << >>
    /\ recommendations = NoStore
    /\ calls = [s \in Slots |-> IdleCall]
    /\ clock = 0
    /\ search = IdleCall
    /\ batch = IdleCall
    /\ analyze = IdleCall
    /\ http = NoHttp
    /\ view \in {MountedView(ctx) : ctx \in ViewContexts}
    /\ dashboard = NoDashboard
    /\ response = NoResponse

NextView ==
    \/ ViewGenerate
    \/ PrimaryReturn(1)
    \/ AlternativeReturn(1)
    \/ EscalationReturn(1)
    \/ ViewLoaded
    \/ SelectRecommendation
    \/ ExecuteStep
    \/ ExecuteStepAnswered

SpecView == InitView /\ [][NextView]_vars

\* uploads and searches from the dashboard, on a server that has no manual
InitDashboard ==
    /\ text = << >>
    /\ manualId = "M1"
    /\ mpc = "idle"
    /\ chunks = << >>
    /\ sections = << >>
    /\ manuals = << >>
    /\ recommendations = NoStore
    /\ calls = [s \in Slots |-> IdleCall]
    /\ clock = 0
    /\ search = IdleCall
    /\ batch = IdleCall
    /\ analyze = IdleCall
    /\ http = NoHttp
    /\ view = NoView
    /\ dashboard = MountedDashboard
    /\ response = NoResponse

\* the ranking steps of searchManual are not among the steps: no search of
\* the panel gets past line 162
NextDashboard ==
    \/ HandleUpload
    \/ ExtractBegin
    \/ ExtractOk
    \/ DelayDone
    \/ ExtractFail
    \/ RouteReplies
    \/ UploadAnswered
    \/ HandleSearch
    \/ SearchAnswered

SpecDashboard == InitDashboard /\ [][NextDashboard]_vars

\* two requests for one ticket, interleaved at their awaits, within one
\* millisecond
InitOverlap ==
    /\ text = << >>
    /\ manualId = "M1"
    /\ mpc = "idle"
    /\ chunks = << >>
    /\ sections = << >>
    /\ manuals = << >>
    /\ recommendations = NoStore
    /\ calls = [s \in Slots |-> IdleCall]
    /\ clock = 0
    /\ search = IdleCall
    /\ batch = IdleCall
    /\ analyze = IdleCall
    /\ http = NoHttp
    /\ view = NoView
    /\ dashboard = NoDashboard
    /\ response = NoResponse

NextOverlap ==
    \/ GenerateOverlapping(1)
    \/ GenerateOverlapping(2)
    \/ PrimaryReturn(1)
    \/ PrimaryReturn(2)
    \/ AlternativeReturn(1)
    \/ AlternativeReturn(2)
    \/ EscalationReturn(1)
    \/ EscalationReturn(2)

SpecOverlap == InitOverlap /\ [][NextOverlap]_vars

\* uploads and deletions on the manual store, one upload at a time
NextStore ==
    \/ ProcessManualText
    \/ ExtractBegin
    \/ ExtractThrows
    \/ ExtractOk
    \/ DelayDone
    \/ ExtractFail
    \/ DeleteManual

SpecStore == Init /\ [][NextStore]_vars

\* a recommendation store as a generateRecommendations call leaves it
PlanStore ==
    StoreSet(NoStore, "T1",
             << AiRecommendation([ticket |-> "T1"], "primary", 2, 0),
                AiRecommendation([ticket |-> "T1"], "alternative", 1, 0) >>)

\* the lookups and searches between uploads and deletions
InitFrame ==
    /\ text = << >>
    /\ manualId = "M1"
    /\ mpc = "idle"
    /\ chunks = << >>
    /\ sections = << >>
    /\ manuals = << >>
    /\ recommendations = PlanStore
    /\ calls = [s \in Slots |-> IdleCall]
    /\ clock = 0
    /\ search = IdleCall
    /\ batch = IdleCall
    /\ analyze = IdleCall
    /\ http = NoHttp
    /\ view = NoView
    /\ dashboard = NoDashboard
    /\ response = NoResponse

\* no upload and no search is in flight
Quiet == mpc = "idle" /\ search.pc = "idle"

\* one request is served after the other
NextFrame ==
    \/ Quiet /\ ProcessManualText
    \/ ExtractBegin
    \/ ExtractThrows
    \/ ExtractOk
    \/ DelayDone
    \/ ExtractFail
    \/ Quiet /\ DeleteManual
    \/ Quiet /\ GetManual
    \/ Quiet /\ GetAllManuals
    \/ Quiet /\ SearchManual
    \/ RankingReturns
    \/ RankingFails
    \/ Quiet /\ ExecuteAction
    \/ Quiet /\ GetRecommendationsCall
    \/ Quiet /\ UpdateRecommendationFeedback

SpecFrame == InitFrame /\ [][NextFrame]_vars

\* the requests the route handlers take, one after the other; their batches
\* are of one ticket at most, so that no delay between batches is awaited
InitRoutes ==
    /\ text = << >>
    /\ manualId = "M1"
    /\ mpc = "idle"
    /\ chunks = << >>
    /\ sections = << >>
    /\ manuals = << >>
    /\ recommendations = NoStore
    /\ calls = [s \in Slots |-> IdleCall]
    /\ clock = 0
    /\ search = IdleCall
    /\ batch = IdleCall
    /\ analyze = IdleCall
    /\ http = NoHttp
    /\ view = NoView
    /\ dashboard = NoDashboard
    /\ response = NoResponse

NextRoutes ==
    \/ PostUploadManual
    \/ GetManuals
    \/ DeleteManuals
    \/ PostSearchManual
    \/ PostAnalyzeSingleTicket
    \/ PostAnalyzeSentiment
    \/ PostGenerateRecommendations
    \/ PostExecuteAction
    \/ PostRecommendationFeedback
    \/ RouteReplies
    \/ ExtractBegin
    \/ ExtractOk
    \/ DelayDone
    \/ ExtractFail
    \/ RankingReturns
    \/ RankingFails
    \/ AnalyzeTicket
    \/ AnalyzeReturns
    \/ AnalyzeFails
    \/ AnalyzeBatch
    \/ TicketAnalyzed
    \/ SearchReturn(1)
    \/ PrimaryReturn(1)
    \/ AlternativeReturn(1)
    \/ EscalationReturn(1)

SpecRoutes == InitRoutes /\ [][NextRoutes]_vars

\* searches of a store that uploads have filled
InitSearch ==
    /\ text = << >>
    /\ manualId = "M1"
    /\ mpc = "idle"
    /\ chunks = << >>
    /\ sections = << >>
    /\ manuals \in SearchStores
    /\ recommendations = NoStore
    /\ calls = [s \in Slots |-> IdleCall]
    /\ clock = 0
    /\ search = IdleCall
    /\ batch = IdleCall
    /\ analyze = IdleCall
    /\ http = NoHttp
    /\ view = NoView
    /\ dashboard = NoDashboard
    /\ response = NoResponse

NextSearch == SearchManual \/ RankingReturns \/ RankingFails

SpecSearch == InitSearch /\ [][NextSearch]_vars

\* calculateRelevanceScore on a section and a query
InitScore ==
    /\ text = << >>
    /\ manualId = "M1"
    /\ mpc = "idle"
    /\ chunks = << >>
    /\ sections = << >>
    /\ manuals = << >>
    /\ recommendations = NoStore
    /\ calls = [s \in Slots |-> IdleCall]
    /\ clock = 0
    /\ search \in [pc : {"score"}, section : ScoreSections, query : ScoreQueries]
    /\ batch = IdleCall
    /\ analyze = IdleCall
    /\ http = NoHttp
    /\ view = NoView
    /\ dashboard = NoDashboard
    /\ response = NoResponse

NextScore == ScoreSection

SpecScore == InitScore /\ [][NextScore]_vars

\* the subjects and descriptions analyzeTicket is called with
Subjects == { << >> } \cup TicketWords

Descriptions ==
    { JoinWords(words, 1) : words \in UNION {[1..n -> TicketWords] : n \in 0..MaxWords} }

\* analyzeTicket has just been called
InitAnalyze ==
    /\ text = << >>
    /\ manualId = "M1"
    /\ mpc = "idle"
    /\ chunks = << >>
    /\ sections = << >>
    /\ manuals = << >>
    /\ recommendations = NoStore
    /\ calls = [s \in Slots |-> IdleCall]
    /\ clock = 0
    /\ search = IdleCall
    /\ batch = IdleCall
    /\ analyze \in [pc : {"called"}, subject : Subjects, description : Descriptions]
    /\ http = NoHttp
    /\ view = NoView
    /\ dashboard = NoDashboard
    /\ response = NoResponse

NextAnalyze == AnalyzeTicket \/ AnalyzeReturns \/ AnalyzeFails

SpecAnalyze == InitAnalyze /\ [][NextAnalyze]_vars

\* analyzeBatch has just been called
InitBatch ==
    /\ text = << >>
    /\ manualId = "M1"
    /\ mpc = "idle"
    /\ chunks = << >>
    /\ sections = << >>
    /\ manuals = << >>
    /\ recommendations = NoStore
    /\ calls = [s \in Slots |-> IdleCall]
    /\ clock = 0
    /\ search = IdleCall
    /\ batch \in [pc : {"called"}, tickets : BatchRequests]
    /\ analyze = IdleCall
    /\ http = NoHttp
    /\ view = NoView
    /\ dashboard = NoDashboard
    /\ response = NoResponse

NextBatch == AnalyzeBatch \/ TicketAnalyzed \/ BatchDelayDone

SpecBatch == InitBatch /\ [][NextBatch]_vars

\* analyzeBatch when every generateObject request is answered or fails (an
\* analyzeTicket call then resolves, lines 344-372), the timer of line 396
\* fires, and the event loop runs the call
SpecBatchLive ==
    /\ SpecBatch
    /\ WF_vars(AnalyzeBatch)
    /\ WF_vars(TicketAnalyzed)
    /\ WF_vars(BatchDelayDone)

----------------------------------------------------------------------------
(* Claims about generateRecommendations                                    *)

Returned == response.op = "generateRecommendations"

RecTypes(recs) == [i \in 1..Len(recs) |-> recs[i].id.type]

\* the generateObject requests of the call that just returned
ObjectAttempts ==
    LET a == response.attempts
    IN {i \in 1..Len(a) : a[i].type # "search"}

\* C1: when a generateRecommendations call returns R, on the fallback path as
\* on the others, getRecommendations(ctx.ticket.id) is R.
C1_StoreHoldsReturned ==
    Returned => GetRecommendations(response.ctx.ticket) = response.result

\* C2: in every recommendation generateRecommendations returns, generated or
\* fallback, the step at 1-based position i has order i.
C2_OrderIsPosition ==
    Returned =>
        \A r \in 1..Len(response.result) :
            \A i \in 1..Len(response.result[r].steps) :
                response.result[r].steps[i].order = i

\* C3: when every generation request made during a generateRecommendations
\* call failed, the call returns the static fallback plan (one recommendation,
\* confidence 0.6), so a non-empty sequence.
C3_AllFailedGivesFallback ==
    ( /\ Returned
      /\ ObjectAttempts # {}
      /\ \A i \in 1..Len(response.attempts) : ~response.attempts[i].ok )
    => /\ Len(response.result) = 1
       /\ response.result[1].confidence = 60

\* C4: a recommendation a generateRecommendations call returns never carries
\* the id of another recommendation, of the same call or of an earlier call
\* for the ticket (whose result the store still holds).
C4_FreshIdsStep ==
    (response'.op = "generateRecommendations") =>
        /\ \A i, j \in 1..Len(response'.result) :
              i # j => response'.result[i].id # response'.result[j].id
        /\ \A i \in 1..Len(response'.result) :
              response'.result[i].id \notin StoredRecIds

C4_IdsAreUnique == [][C4_FreshIdsStep]_vars

\* C5: an escalation recommendation is requested and returned only for a
\* negative sentiment with urgency high or urgent; for negative and urgent, when
\* every generation succeeded, the result is primary, alternative, escalation;
\* for a positive or neutral sentiment the result holds no escalation.
C5_EscalationOnlyWhenDue ==
    /\ \A s \in Slots :
          calls[s].pc = "escalation" =>
              /\ calls[s].ctx.sentiment = "negative"
              /\ calls[s].ctx.urgency \in {"high", "urgent"}
    /\ Returned =>
          LET types == RecTypes(response.result)
              hasEscalation == \E i \in 1..Len(types) : types[i] = "escalation"
              attempted == \E i \in 1..Len(response.attempts) :
                              response.attempts[i].type = "escalation"
          IN /\ (hasEscalation \/ attempted) =>
                    /\ response.ctx.sentiment = "negative"
                    /\ response.ctx.urgency \in {"high", "urgent"}
             /\ ( /\ response.ctx.sentiment = "negative"
                  /\ response.ctx.urgency = "urgent"
                  /\ ObjectAttempts # {}
                  /\ \A i \in ObjectAttempts : response.attempts[i].ok )
                => types = << "primary", "alternative", "escalation" >>
             /\ response.ctx.sentiment \in {"positive", "neutral"} => ~hasEscalation

\* a negative, urgent request whose three generations succeeded has returned
C5_Witness ==
    /\ Returned
    /\ response.ctx.sentiment = "negative"
    /\ response.ctx.urgency = "urgent"
    /\ Len(response.attempts) >= 3
    /\ \A i \in ObjectAttempts : response.attempts[i].ok
    /\ RecTypes(response.result) = << "primary", "alternative", "escalation" >>

----------------------------------------------------------------------------
(* Claims about executeAction                                              *)

Executed == response.op = "executeAction"

\* C6: executeAction answers by the first level that is missing: no entry for
\* the ticket in the store (a ticket-level message), else no stored
\* recommendation of the ticket with the id ("Recommendation not found"), else
\* no step with the id in that recommendation ("Step not found"); it reports
\* success only when all three exist.  A stored empty sequence is an entry.
C6_LookupLevels ==
    Executed =>
        LET t == response.ticketId
            res == response.result
            hasEntry == t \in DOMAIN recommendations
            recIdx == IF hasEntry
                      THEN {i \in 1..Len(recommendations[t]) :
                               recommendations[t][i].id = response.recommendationId}
                      ELSE {}
            hasStep == \E i \in recIdx :
                          \E k \in 1..Len(recommendations[t][i].steps) :
                              recommendations[t][i].steps[k].id = response.stepId
        IN /\ res.success \in BOOLEAN
           /\ ~hasEntry =>
                 /\ ~res.success
                 /\ res.message = "No recommendations found for this ticket"
           /\ (hasEntry /\ recIdx = {}) =>
                 /\ ~res.success
                 /\ res.message = "Recommendation not found"
           /\ (hasEntry /\ recIdx # {} /\ ~hasStep) =>
                 /\ ~res.success
                 /\ res.message = "Step not found"
           /\ res.success <=> (hasEntry /\ recIdx # {} /\ hasStep)

\* a lookup has failed at the step level: ticket and recommendation are stored
C6_Witness ==
    /\ Executed
    /\ response.ticketId \in DOMAIN recommendations
    /\ response.recommendationId \in StoredRecIds
    /\ ~response.result.success
    /\ response.result.message = "Step not found"

\* C7: a successful executeAction for the step at position k of a
\* recommendation of n steps returns the step at position k + 1 as nextStep
\* when k < n, and no nextStep when k = n.
C7_NextStepByPosition ==
    (Executed /\ response.result.success) =>
        \A i \in 1..Len(recommendations[response.ticketId]) :
            LET rec == recommendations[response.ticketId][i] IN
            rec.id = response.recommendationId =>
                \A k \in 1..Len(rec.steps) :
                    rec.steps[k].id = response.stepId =>
                        /\ k < Len(rec.steps) =>
                              response.result.nextStep = << rec.steps[k + 1] >>
                        /\ k = Len(rec.steps) =>
                              response.result.nextStep = << >>

\* a step that is not the last of its plan has been executed
C7_Witness ==
    /\ Executed
    /\ response.result.success
    /\ response.result.nextStep # << >>
    /\ response.result.nextStep[1].id = StepId(2)

----------------------------------------------------------------------------
(* Claims about splitIntoChunks and processManualText                      *)

ChunksMade == mpc # "called"

Processed == response.op = "processManualText"

NonBlank(s) == Trim(s) # << >>

\* C8: every chunk has at most 2000 characters, unless it is one single
\* paragraph that is itself longer than 2000 characters.
C8_ChunkWithinLimit ==
    ChunksMade =>
        \A i \in 1..Len(chunks) :
            \/ StrLen(chunks[i]) <= 2000
            \/ Len(SplitParagraphs(chunks[i])) = 1

\* the text is two paragraphs with something in them, whose lengths add up to
\* more than 2000
TwoLongParagraphs ==
    LET ps == SplitParagraphs(text)
    IN /\ Len(ps) = 2
       /\ NonBlank(ps[1])
       /\ NonBlank(ps[2])
       /\ StrLen(ps[1]) + StrLen(ps[2]) > 2000

\* C9: a text of exactly two paragraphs whose lengths add up to more than 2000
\* characters gives exactly two chunks and the sections section-1, section-2.
C9_TwoParagraphsTwoChunks ==
    TwoLongParagraphs =>
        /\ ChunksMade => Len(chunks) = 2
        /\ Processed =>
              /\ Len(response.sections) = 2
              /\ response.sections[1].id = SectionId(1)
              /\ response.sections[2].id = SectionId(2)

C9_Witness ==
    /\ TwoLongParagraphs
    /\ Processed
    /\ Len(response.sections) = 2

\* the text has K >= 1 paragraphs, each under 2000 characters, something in
\* it, and is at most 2000 characters long as a whole
ShortText ==
    LET ps == SplitParagraphs(text)
    IN /\ NonBlank(text)
       /\ \A i \in 1..Len(ps) : StrLen(ps[i]) < 2000
       /\ StrLen(text) <= 2000

\* C10: a text of K >= 1 paragraphs, each under 2000 characters, of at most
\* 2000 characters in all, gives exactly one chunk and the one section
\* section-1.
C10_ShortTextOneChunk ==
    ShortText =>
        /\ ChunksMade => Len(chunks) = 1
        /\ Processed =>
              /\ Len(response.sections) = 1
              /\ response.sections[1].id = SectionId(1)

\* three paragraphs in a text of more than 1000 characters went into one section
C10_Witness ==
    /\ ShortText
    /\ Len(SplitParagraphs(text)) = 3
    /\ StrLen(text) > 1000
    /\ Processed
    /\ Len(response.sections) = 1

----------------------------------------------------------------------------
(* Claims about the sections of a manual and the manual store             *)

\* the section at every position i carries the id section-i, and is, when the
\* extraction failed for chunk i, the fallback section of that chunk
SectionsFollowChunks(secs) ==
    /\ Len(secs) <= Len(chunks)
    /\ \A i \in 1..Len(secs) :
          /\ secs[i].id = << "section", i >>
          /\ ~secs[i].fromAi =>
                /\ secs[i].content = chunks[i]
                /\ secs[i].title = << "S", "e", "c", "t", "i", "o", "n", " ", NumStr(i) >>
                /\ secs[i].category = "General"
                /\ secs[i].keywords = << >>
                /\ secs[i].priority = "medium"
    /\ \A i, j \in 1..Len(secs) : i # j => secs[i].id # secs[j].id

\* C11: processManualText makes one section per chunk, in chunk order; the
\* section at position i has id section-i whether the extraction for chunk i
\* succeeded or failed; after a failure it is the fallback section (the raw
\* chunk, "Section i", "General", no keywords, "medium"), and the manual is
\* still ready.
C11_OneSectionPerChunk ==
    /\ ChunksMade => SectionsFollowChunks(sections)
    /\ Processed =>
          /\ response.status = "ready"
          /\ Len(response.sections) = Len(chunks)
          /\ SectionsFollowChunks(response.sections)

\* a manual of two chunks is ready: the first extraction succeeded, the second
\* failed
C11_Witness ==
    /\ Processed
    /\ Len(chunks) = 2
    /\ Len(response.sections) = 2
    /\ response.sections[1].fromAi
    /\ ~response.sections[2].fromAi

\* what the store holds and what a completed processManualText returned
StoreEntriesSettled ==
    /\ \A i \in 1..Len(manuals) :
          /\ manuals[i].status \in {"ready", "error"}
          /\ manuals[i].status = "error" => manuals[i].sections = << >>
          /\ manuals[i].id = manuals[i].key
    /\ Processed =>
          /\ response.manualId \in Keys(manuals)
          /\ \A i \in 1..Len(manuals) :
                manuals[i].key = response.manualId =>
                    /\ manuals[i].status = response.status
                    /\ manuals[i].sections = response.sections

\* a step that changes what the store holds under an id completes a
\* processManualText call for that id, or deletes that id
StoreWrittenOnCompletion ==
    \A id \in ManualIds \cup {UnknownManualId} :
        MapGet(manuals', id) # MapGet(manuals, id) =>
            /\ response'.op \in {"processManualText", "deleteManual"}
            /\ response'.manualId = id
            /\ response'.op = "processManualText" => manualId = id /\ mpc # "idle"

\* C12: every entry of the manual store has status ready or error, never
\* processing; an error entry has no sections; the id of an entry is its key;
\* a completed processManualText(manualId, ...) leaves its manual under
\* manualId, in place of any earlier one, and the store is not written for
\* that id before the call completes.
C12_StoreLifecycle == []StoreEntriesSettled /\ [][StoreWrittenOnCompletion]_vars

\* a call has just ended in error for an id that held a manual before another
\* manual was stored: the error entry took the place of the earlier one
C12_Witness ==
    /\ Processed
    /\ response.status = "error"
    /\ Len(manuals) = 2
    /\ manuals[1].key = response.manualId
    /\ manuals[1].status = "error"
    /\ manuals[2].status = "ready"

\* the step completes a deleteManual call
Deleted == response'.op = "deleteManual"

\* what a deleteManual(id) step returns and does to the store
DeleteReportsPresence ==
    Deleted =>
        LET id == response'.manualId IN
        /\ response'.result = (id \in Keys(manuals))
        /\ Keys(manuals') = Keys(manuals) \ {id}
        /\ \A k \in Keys(manuals) \ {id} : MapGet(manuals', k) = MapGet(manuals, k)
        /\ Len(manuals') = Cardinality(Keys(manuals'))
        /\ ~response'.result => manuals' = manuals

\* an id becomes a key of the store only when a processManualText call for
\* it completes
KeyEntersOnUpload ==
    \A id \in ManualIds \cup {UnknownManualId} :
        (id \notin Keys(manuals) /\ id \in Keys(manuals')) =>
            /\ response'.op = "processManualText"
            /\ response'.manualId = id

\* deleteManual(id) directly after deleteManual(id)
DeleteRepeated ==
    (Deleted /\ response.op = "deleteManual"
        /\ response.manualId = response'.manualId) =>
        /\ ~response'.result
        /\ manuals' = manuals

\* C20: deleteManual(id) returns true exactly when id is a key of the store
\* at the call, and removes that entry and no other; the id stays out of the
\* store until a processManualText for it completes, so a repeated
\* deleteManual(id) returns false and changes nothing.
C20_DeleteReportsPresence ==
    [][DeleteReportsPresence /\ KeyEntersOnUpload /\ DeleteRepeated]_vars

\* a delete has just returned true and another manual is still in the store
C20_Witness ==
    /\ response.op = "deleteManual"
    /\ response.result
    /\ response.manualId \notin Keys(manuals)
    /\ Len(manuals) >= 1


----------------------------------------------------------------------------
(* Claims about searchManual                                               *)

Searched == response.op = "searchManual"

FellBack == Searched /\ response.path = "fallback"

\* the sections of the manual the completed search was asked about
SearchedSections == MapGet(manuals, response.manualId)[1].sections

\* the positions of the results that show section sec
ResultsOf(sec) ==
    {k \in 1..Len(response.result) : response.result[k].section = sec}

\* C13: searchManual returns the empty sequence, raising nothing and making no
\* generation call, whenever the store holds no manual under manualId or
\* holds one whose status is not ready.
C13_RefusedSearchIsEmpty ==
    /\ search.pc = "ranking" =>
          \E i \in 1..Len(manuals) :
              manuals[i].key = search.manualId /\ manuals[i].status = "ready"
    /\ ( /\ Searched
          /\ \/ response.manualId \notin Keys(manuals)
             \/ \E i \in 1..Len(manuals) :
                   /\ manuals[i].key = response.manualId
                   /\ manuals[i].status # "ready" )
       => /\ response.result = << >>
          /\ response.generationCalls = 0

\* a manual that ended in error was searched
C13_Witness ==
    /\ Searched
    /\ response.manualId \in Keys(manuals)
    /\ manuals[1].status = "error"
    /\ response.result = << >>
    /\ response.generationCalls = 0

\* C14, as claimed: on the fallback path over a ready manual of any number of
\* sections, a section whose title equals the query string is among the
\* results, with a relevance score of at least 0.4.
C14_TitleMatchReturned ==
    FellBack =>
        \A i \in 1..Len(SearchedSections) :
            SearchedSections[i].title = response.query.query =>
                \E k \in ResultsOf(SearchedSections[i]) :
                    response.result[k].relevanceScore >= 2400

\* the other sections of the manual that score at least as much as section i
Outrankers(i) ==
    {j \in 1..Len(SearchedSections) :
        /\ j # i
        /\ CalculateRelevanceScore(SearchedSections[j], response.query)
              >= CalculateRelevanceScore(SearchedSections[i], response.query)}

\* C14, amended: on the fallback path over a ready manual, a section whose
\* title equals the query string scores at least 0.4, and it is among the
\* results with that score whenever fewer than five other sections of the
\* manual score as much or more.
C14_TitleMatchReturnedUnlessOutranked ==
    FellBack =>
        \A i \in 1..Len(SearchedSections) :
            SearchedSections[i].title = response.query.query =>
                /\ \A k \in ResultsOf(SearchedSections[i]) :
                      response.result[k].relevanceScore >= 2400
                /\ Cardinality(Outrankers(i)) < FallbackLimit =>
                      ResultsOf(SearchedSections[i]) # {}

\* the last of six sections carries the query as its title, four others score
\* as much or more, and it is returned among five results
C14_Witness ==
    /\ FellBack
    /\ Len(SearchedSections) = 6
    /\ SearchedSections[6].title = response.query.query
    /\ Cardinality(Outrankers(6)) = 4
    /\ ResultsOf(SearchedSections[6]) # {}
    /\ Len(response.result) = 5

\* the sections of the searched manual that score above 0.1
Qualifying ==
    {i \in 1..Len(SearchedSections) :
        CalculateRelevanceScore(SearchedSections[i], response.query) > 600}

\* C15: when the ranking call fails the result is taken from all sections of
\* the manual: it shows only sections that score above 0.1, each once and with
\* its score, at most five of them, and no section that is left out although
\* it scores above 0.1 scores more than one that is shown.
C15_FallbackTopFive ==
    FellBack =>
        /\ Len(response.result) <= 5
        /\ \A k \in 1..Len(response.result) :
              /\ response.result[k].relevanceScore > 600
              /\ \E i \in Qualifying :
                    /\ response.result[k].section = SearchedSections[i]
                    /\ response.result[k].relevanceScore =
                          CalculateRelevanceScore(SearchedSections[i], response.query)
              /\ \A l \in 1..Len(response.result) :
                    l # k => response.result[l].section # response.result[k].section
        /\ \A i \in Qualifying :
              ResultsOf(SearchedSections[i]) = {} =>
                  /\ Len(response.result) = 5
                  /\ \A k \in 1..Len(response.result) :
                        CalculateRelevanceScore(SearchedSections[i], response.query)
                          <= response.result[k].relevanceScore

\* six sections score above 0.1, the sixth more than the first, and five are
\* returned
C15_Witness ==
    /\ FellBack
    /\ Cardinality(Qualifying) = 6
    /\ Len(response.result) = 5
    /\ CalculateRelevanceScore(SearchedSections[6], response.query)
          > CalculateRelevanceScore(SearchedSections[1], response.query)
    /\ ResultsOf(SearchedSections[6]) # {}

\* C16: on the ranked path and on the fallback path the results come by
\* non-increasing relevance score, whatever the order the ranking response
\* listed the sections in.
C16_SortedByScore ==
    (Searched /\ response.path \in {"ranked", "fallback"}) =>
        \A k \in 1..(Len(response.result) - 1) :
            response.result[k].relevanceScore >= response.result[k + 1].relevanceScore

\* the ranking response listed section 2 before section 1, and section 1,
\* which scores more, is returned first
C16_Witness ==
    /\ Searched
    /\ response.path = "ranked"
    /\ response.ranking = << 2, 1 >>
    /\ Len(response.result) = 2
    /\ response.result[1].section.id = SectionId(1)
    /\ response.result[2].section.id = SectionId(2)
    /\ response.result[1].relevanceScore > response.result[2].relevanceScore

----------------------------------------------------------------------------
(* Claims about calculateRelevanceScore                                    *)

Scored == response.op = "calculateRelevanceScore"

\* C17: for every section and query, with or without ticket context, for the
\* empty query and for a section without keywords, the relevance score is a
\* number from 0 to 1: the sum of the terms is capped at 1.
C17_ScoreInUnitRange ==
    Scored => response.score \in 0..ScoreOne

\* all six terms apply (0.4 + 0.3 + 0.2 + 0.1 + 0.1 + 0.1) and the score is 1
C17_Witness ==
    /\ Scored
    /\ response.score = ScoreOne
    /\ response.section.priority = "high"
    /\ response.section.category = "Escalation"
    /\ response.section.keywords # << >>
    /\ response.query.ticketContext
          = << [urgency |-> "urgent", sentiment |-> "negative"] >>
    /\ ScoreTerms(response.section, response.query, 2400) = 7200

----------------------------------------------------------------------------
(* Claims about the sentiment analyzer                                     *)

Analyzed == response.op = "analyzeTicket"

\* the words of a list that occur in the lower-cased subject and description
\* of the ticket that was analysed
WordsFound(list) ==
    {i \in 1..Len(list) :
        Includes(ToLowerCase(response.subject \o << " " >> \o response.description),
                 list[i])}

\* C19: when the generation call fails analyzeTicket still returns: the
\* heuristic analysis with confidence 0.6 and a score of 0.7, 0.3 or 0.5;
\* the sentiment is positive exactly when the score is 0.7 and more positive
\* than negative words occur, negative exactly when the score is 0.3 and more
\* negative words occur, neutral exactly when the score is 0.5 and the counts
\* are equal.
C19_FallbackSentimentMatchesScore ==
    /\ analyze.pc \in {"called", "generate", "idle"}
    /\ (analyze.pc = "idle") <=> Analyzed
    /\ (Analyzed /\ ~response.analysis.generated) =>
          LET a == response.analysis
              positiveCount == Cardinality(WordsFound(PositiveWords))
              negativeCount == Cardinality(WordsFound(NegativeWords))
          IN /\ a.confidence = 60
             /\ a.score \in {70, 30, 50}
             /\ (a.sentiment = "positive") <=> (a.score = 70)
             /\ (a.sentiment = "negative") <=> (a.score = 30)
             /\ (a.sentiment = "neutral") <=> (a.score = 50)
             /\ (a.score = 70) <=> (positiveCount > negativeCount)
             /\ (a.score = 30) <=> (negativeCount > positiveCount)
             /\ (a.score = 50) <=> (positiveCount = negativeCount)

\* a ticket whose subject is the capitalised positive word "Great" and whose
\* text holds one negative word came out neutral
C19_Witness ==
    /\ Analyzed
    /\ ~response.analysis.generated
    /\ Cardinality(WordsFound(PositiveWords)) = 1
    /\ Cardinality(WordsFound(NegativeWords)) = 1
    /\ response.analysis.sentiment = "neutral"
    /\ response.analysis.score = 50
    /\ response.subject = << "G", "r", "e", "a", "t" >>

----------------------------------------------------------------------------
(* Claims on SentimentAnalyzer.analyzeBatch                                *)

\* analyzeBatch has returned
Batched == response.op = "analyzeBatch"

\* the ids of the tickets of the request that was answered
RequestIds == {response.tickets[k].id : k \in 1..Len(response.tickets)}

DistinctIds ==
    \A j, k \in 1..Len(response.tickets) :
        j # k => response.tickets[j].id # response.tickets[k].id

\* the mapping is keyed by the ids of the request, and every ticket finds
\* under its id the analysis that was computed for it
KeyedByTicket ==
    /\ DOMAIN response.results = RequestIds
    /\ Len(response.computed) = Len(response.tickets)
    /\ \A k \in 1..Len(response.tickets) :
          /\ response.results[response.tickets[k].id] = response.computed[k]
          /\ ~response.computed[k].generated =>
                response.computed[k] = FallbackAnalysis(response.tickets[k].subject,
                                                        response.tickets[k].description)

\* C18, as claimed: for every input sequence of N tickets analyzeBatch returns
\* a mapping of exactly N entries, keyed by the ids of the tickets, every
\* ticket finding the analysis computed for it, however N falls across the
\* batches of 5.
C18_OneEntryPerTicket ==
    Batched =>
        /\ Cardinality(DOMAIN response.results) = Len(response.tickets)
        /\ KeyedByTicket

\* C18, amended: the same for every input sequence of N tickets whose ids are
\* pairwise distinct; in every case the mapping is keyed by the ids of the
\* request, one entry for each id.
C18_OneEntryPerDistinctTicket ==
    Batched =>
        /\ DOMAIN response.results = RequestIds
        /\ DistinctIds =>
              /\ Cardinality(DOMAIN response.results) = Len(response.tickets)
              /\ KeyedByTicket

\* eleven tickets with eleven ids went through three batches, some analysed
\* by generation and some by the heuristic
C18_Witness ==
    /\ Batched
    /\ Len(response.tickets) = 11
    /\ DistinctIds
    /\ Cardinality(DOMAIN response.results) = 11
    /\ response.delays = 2
    /\ response.computed[5].generated
    /\ ~response.computed[6].generated

----------------------------------------------------------------------------
(* Claims on the operations that only read                                 *)

\* the operations that look things up
ReadOps ==
    {"executeAction", "updateRecommendationFeedback", "getRecommendations",
     "getManual", "getAllManuals", "searchManual"}

\* a step of a lookup: one that returns, or one of a searchManual call
ReadStep == response'.op \in ReadOps \/ search' # search

StoresKept ==
    /\ ReadStep => manuals' = manuals /\ recommendations' = recommendations
    /\ manuals' # manuals => response'.op \in {"processManualText", "deleteManual"}

\* getAllManuals returns what the store holds, and the same as the
\* getAllManuals before it when it follows directly
AllManualsStable ==
    response'.op = "getAllManuals" =>
        /\ Len(response'.result) = Len(manuals)
        /\ \A i \in 1..Len(manuals) :
              /\ response'.result[i].id = manuals[i].id
              /\ response'.result[i].status = manuals[i].status
              /\ response'.result[i].sections = manuals[i].sections
        /\ response.op = "getAllManuals" => response'.result = response.result

\* C21: executeAction, updateRecommendationFeedback, getRecommendations,
\* getManual, getAllManuals and searchManual leave the manual store and the
\* recommendation store, stored steps included, as they were, whatever their
\* arguments and outcome; so two getAllManuals calls with no processManualText
\* or deleteManual between them return equal content, and only
\* processManualText and deleteManual change the manual store.
C21_LookupsKeepStores == [][StoresKept /\ AllManualsStable]_vars

\* getAllManuals has returned the two manuals of the store, with the
\* recommendation store as it was
C21_Witness ==
    /\ response.op = "getAllManuals"
    /\ Len(response.result) = 2
    /\ recommendations = PlanStore

----------------------------------------------------------------------------
(* Claims on the route handlers                                            *)

\* the request h.request has a body of fields, one of which is required by
\* the endpoint and is not there
MissingField(h) ==
    /\ h.route # "none"
    /\ h.request.kind \in {"object", "form", "delete"}
    /\ LET r == h.request IN
       CASE h.route = "upload-manual" ->
              r.file = Absent \/ r.name = Absent \/ Trim(r.file[1]) = << >>
         [] h.route = "manuals" -> r.id = Absent
         [] h.route = "search-manual" ->
              r.fields.manualId = Absent \/ r.fields.query = Absent
         [] h.route = "analyze-single-ticket" ->
              r.fields.subject = Absent \/ r.fields.description = Absent
         [] h.route = "analyze-sentiment" ->
              r.fields.tickets = Absent \/ ~r.fields.tickets[1].isArray
         [] h.route = "generate-recommendations" ->
              \/ r.fields.context = Absent
              \/ r.fields.context[1].ticket = Absent
              \/ r.fields.context[1].sentimentAnalysis = Absent
         [] h.route = "execute-action" ->
              \/ r.fields.ticketId = Absent
              \/ r.fields.recommendationId = Absent
              \/ r.fields.stepId = Absent
         [] h.route = "recommendation-feedback" ->
              \/ r.fields.ticketId = Absent
              \/ r.fields.recommendationId = Absent
              \/ r.fields.feedback = Absent

RejectedWith400 == MissingField(http) => http.status = 400 /\ http.error

\* the step that answers such a request calls nothing of the core
CoreNotReached ==
    MissingField(http') =>
        /\ UNCHANGED <<mvars, recommendations, calls, search, batch, analyze>>
        /\ response' = NoResponse

\* C22: at every endpoint a request whose fields lack a required one (the
\* manual id, the file, the name or a non-blank file content, the tickets
\* array, subject or description, manualId or query, context.ticket or
\* context.sentimentAnalysis, ticketId, recommendationId or stepId, the
\* feedback) is answered with status 400 and an {error} body, and the core
\* operation is not called: neither store changes.
C22_MissingFieldIs400 == []RejectedWith400 /\ [][CoreNotReached]_vars

\* a request for recommendations without sentimentAnalysis was answered with
\* 400 while both stores held something
C22_Witness ==
    /\ http.route = "generate-recommendations"
    /\ http.status = 400
    /\ http.request.kind = "object"
    /\ http.request.fields.context # Absent
    /\ http.request.fields.context[1].sentimentAnalysis = Absent
    /\ manuals # << >>
    /\ recommendations # NoStore

----------------------------------------------------------------------------
(* Claims on generateMultipleOptions                                       *)

Variants == << "primary", "alternative", "escalation" >>

\* the variants the generation client was asked for, in the order of asking
VariantsAsked(attempts) ==
    LET asked == SelectSeq(attempts, LAMBDA a : a.type # "search")
    IN [i \in 1..Len(asked) |-> asked[i].type]

\* the variants whose generation succeeded, in the order of asking
VariantsMade(attempts) ==
    LET made == SelectSeq(attempts, LAMBDA a : a.type # "search" /\ a.ok)
    IN [i \in 1..Len(made) |-> made[i].type]

IsPrefix(s, t) == Len(s) <= Len(t) /\ \A i \in 1..Len(s) : s[i] = t[i]

\* a call in flight, and a call that returned, asked for primary, alternative,
\* escalation in that order, each at most once
AskedInOrder ==
    /\ \A s \in Slots :
          calls[s].pc \in {"primary", "alternative", "escalation"} =>
              IsPrefix(VariantsAsked(calls[s].attempts), Variants)
    /\ Returned => IsPrefix(VariantsAsked(response.attempts), Variants)

\* C23 as stated: the generation client is asked at most once per variant, in
\* the order primary, alternative, escalation, and every generateRecommendations
\* call returns exactly the variants whose generation succeeded, in that order,
\* between 0 and 3 of them.
C23_ReturnsWhatSucceeded ==
    /\ AskedInOrder
    /\ Returned =>
          /\ RecTypes(response.result) = VariantsMade(response.attempts)
          /\ Len(response.result) \in 0..3

\* C23, amended: the generation client is asked at most once per variant, in
\* the order primary, alternative, escalation; a call that does not end in the
\* catch block returns exactly the variants whose generation succeeded, in
\* that order, between 0 and 3 of them; a call that ends in the catch block
\* returns the one static fallback recommendation.
C23_ReturnsWhatSucceededUnlessThrown ==
    /\ AskedInOrder
    /\ Returned =>
          IF response.fallback
          THEN RecTypes(response.result) = << "fallback" >>
          ELSE /\ RecTypes(response.result) = VariantsMade(response.attempts)
               /\ Len(response.result) \in 0..3

\* a call has returned primary and escalation after its alternative failed
C23_Witness ==
    /\ Returned
    /\ ~response.fallback
    /\ VariantsAsked(response.attempts) = Variants
    /\ VariantsMade(response.attempts) = << "primary", "escalation" >>
    /\ RecTypes(response.result) = << "primary", "escalation" >>

----------------------------------------------------------------------------
(* Claims on overlapping generateRecommendations calls                     *)

\* slot s completes its call in this step, outside the catch block
Completes(s) ==
    /\ calls[s].pc # "idle"
    /\ calls'[s].pc = "idle"
    /\ ~response'.fallback

\* the store is written only by a call that completes, and then holds what
\* that call returns: the recommendations that call gathered at its own
\* awaits, followed by the one of its last await
WrittenWhole ==
    IF \E s \in Slots : Completes(s)
    THEN \E s \in Slots :
            /\ Completes(s)
            /\ recommendations'[calls[s].ctx.ticket] = response'.result
            /\ IsPrefix(calls[s].recs, response'.result)
            /\ Len(response'.result) <= Len(calls[s].recs) + 1
            /\ IsPrefix(calls[s].attempts, response'.attempts)
            /\ RecTypes(response'.result) = VariantsMade(response'.attempts)
    ELSE recommendations' = recommendations

\* the last call that wrote is the last call that returned outside the catch
\* block; when no call is in flight the store holds its result
LastWriterWins ==
    ( /\ Returned
      /\ ~response.fallback
      /\ \A s \in Slots : calls[s].pc = "idle" )
    => recommendations[response.ctx.ticket] = response.result

\* C24: when two generateRecommendations calls for one ticket interleave at
\* their awaits, the sequence stored for the ticket is at every moment absent
\* or the complete result of one call, never a mixture, and once both have
\* completed it is the result of the call that wrote last.
C24_LastWriteWins == []LastWriterWins /\ [][WrittenWhole]_vars

\* one call has just written and returned its result while the other, which
\* has its primary recommendation, is still awaiting its alternative
C24_Witness ==
    /\ Returned
    /\ ~response.fallback
    /\ calls[1].pc = "alternative"
    /\ calls[2].pc = "idle"
    /\ Len(calls[1].recs) = 1
    /\ RecTypes(response.result) = << "primary", "alternative", "escalation" >>
    /\ response.result[1] # calls[1].recs[1]
    /\ recommendations[response.ctx.ticket] = response.result

----------------------------------------------------------------------------
(* Claims on the batches of analyzeBatch                                   *)

\* the analyzeTicket calls that have been started and have not resolved
InFlight ==
    IF batch.pc = "batch"
    THEN {k \in DOMAIN batch.pending : batch.pending[k] = << >>}
    ELSE {}

BatchComplete(b) == \A k \in DOMAIN b.pending : b.pending[k] # << >>

\* the batch in hand is the next five tickets at most, as many delays have
\* elapsed as batches came before it, and a delay is awaited only between a
\* complete batch and a batch that follows
BatchesOfFive ==
    /\ Cardinality(InFlight) <= BatchSize
    /\ batch.pc \in {"batch", "delay"} =>
          /\ batch.i % BatchSize = 0
          /\ batch.i < Len(batch.tickets)
          /\ DOMAIN batch.pending =
                (batch.i + 1)..Min(batch.i + BatchSize, Len(batch.tickets))
          /\ batch.delays = batch.i \div BatchSize
    /\ batch.pc = "delay" =>
          /\ BatchComplete(batch)
          /\ batch.i + BatchSize < Len(batch.tickets)

\* ceil(N/5) - 1 delays for N > 0 tickets
DelaysCounted ==
    Batched =>
        response.delays = IF Len(response.tickets) = 0 THEN 0
                          ELSE (Len(response.tickets) + BatchSize - 1) \div BatchSize - 1

\* analyzeTicket calls start only with their batch, and a batch after the
\* first starts in the step in which the delay after a complete batch elapses
BatchesInTurn ==
    /\ InFlight' \subseteq InFlight \/ InFlight = {}
    /\ (InFlight' # {} /\ InFlight = {}) =>
          \/ batch.pc = "called" /\ batch'.i = 0
          \/ /\ batch.pc = "delay"
             /\ BatchComplete(batch)
             /\ batch'.i = batch.i + BatchSize
             /\ batch'.delays = batch.delays + 1
    /\ (batch.pc = "batch" /\ batch'.pc # "batch") => InFlight' = {}

\* C25: analyzeBatch runs the tickets in consecutive batches of at most 5, at
\* most 5 analyzeTicket calls in flight; a call of batch k+1 starts only after
\* every call of batch k has resolved and the delay after batch k has elapsed;
\* N > 0 tickets take ceil(N/5) - 1 delays, none after the last batch; and
\* when every generation request returns or fails, analyzeBatch returns.
C25_BatchesInTurn ==
    /\ [](BatchesOfFive /\ DelaysCounted)
    /\ [][BatchesInTurn]_vars
    /\ <>(batch.pc = "idle")

\* ten tickets were answered after two full batches and one delay
C25_Witness ==
    /\ Batched
    /\ Len(response.tickets) = 2 * BatchSize
    /\ response.delays = 1
    /\ Len(response.computed) = 2 * BatchSize

----------------------------------------------------------------------------
(* Claims on the manual search of generateRecommendations                  *)

\* the searchManual requests a call has made
SearchesOf(attempts) == SelectSeq(attempts, LAMBDA a : a.type = "search")

\* guidance is absent and the store holds a manual
SearchDue(ctx) == ~ctx.hasGuidance /\ manuals # << >>

\* the searches of a call, awaited or done, go to the first manual of the
\* store, and there is one of them exactly when a search is due
OneSearchOfFirst ==
    /\ \A s \in Slots :
          /\ calls[s].pc = "search" =>
                /\ SearchDue(calls[s].ctx)
                /\ calls[s].target = manuals[1].id
                /\ calls[s].attempts = << >>
          /\ calls[s].pc \in {"primary", "alternative", "escalation"} =>
                /\ Len(SearchesOf(calls[s].attempts)) =
                      (IF SearchDue(calls[s].ctx) THEN 1 ELSE 0)
                /\ \A i \in 1..Len(calls[s].attempts) :
                      calls[s].attempts[i].type = "search" =>
                          calls[s].attempts[i].manual = manuals[1].id
    /\ Returned =>
          /\ Len(SearchesOf(response.attempts)) =
                (IF SearchDue(response.ctx) THEN 1 ELSE 0)
          /\ \A i \in 1..Len(response.attempts) :
                response.attempts[i].type = "search" =>
                    response.attempts[i].manual = manuals[1].id

\* a request for which a search is due awaits it before anything else
SearchedFirst ==
    \A s \in Slots :
        (calls[s].pc = "idle" /\ calls'[s].pc # "idle") =>
            (calls'[s].pc = "search" <=> SearchDue(calls'[s].ctx))

\* C26: generateRecommendations makes exactly one searchManual request, to
\* the manual first in insertion order, when and only when manualGuidance is
\* absent and the store holds a manual; it makes none when guidance is
\* supplied or the store is empty, and it searches no other manual.
C26_OneSearchOfFirstManual == []OneSearchOfFirst /\ [][SearchedFirst]_vars

\* a request without guidance has returned after searching M2, a failed
\* upload that is first in a store which holds the ready M1 as well
C26_Witness ==
    /\ Returned
    /\ ~response.ctx.hasGuidance
    /\ Len(manuals) = 2
    /\ manuals[1].id = "M2"
    /\ manuals[1].status = "error"
    /\ Len(SearchesOf(response.attempts)) = 1
    /\ response.attempts[1].manual = "M2"
    /\ Len(response.result) >= 1

----------------------------------------------------------------------------
(* Claims on the ranked path of searchManual                               *)

Ranked == Searched /\ response.path = "ranked"

\* the places of the ranking response where a positive number appears for
\* the first time
FirstAppearances(ranking) ==
    {i \in 1..Len(ranking) :
        ranking[i] > 0 /\ \A j \in 1..(i - 1) : ranking[j] # ranking[i]}

\* the first five of these places
CandidatePlaces(ranking) ==
    {i \in FirstAppearances(ranking) :
        Cardinality({j \in FirstAppearances(ranking) : j < i}) < 5}

\* the candidate indices are the numbers at these places, in their order
CandidatesInOrder(ranking) ==
    LET numbers == ExtractSectionNumbers(ranking)
    IN /\ Len(numbers) = Cardinality(CandidatePlaces(ranking))
       /\ \A k \in 1..Len(numbers) :
             \E i \in CandidatePlaces(ranking) :
                /\ ranking[i] = numbers[k]
                /\ Cardinality({j \in CandidatePlaces(ranking) : j < i}) = k - 1

\* the candidate indices that name a section of the manual
Resolved(ranking) ==
    {ranking[i] : i \in CandidatePlaces(ranking)} \cap 1..Len(SearchedSections)

\* C27: on the ranked path of searchManual the candidate indices are the first
\* five distinct positive integers of the ranking response, in order of
\* appearance; each result shows the section at that index, from 1, of the
\* manual; an index beyond the sections is skipped; so the result has at most
\* 5 entries and shows no section twice.
C27_RankedCandidates ==
    Ranked =>
        /\ CandidatesInOrder(response.ranking)
        /\ Len(response.result) = Cardinality(Resolved(response.ranking))
        /\ \A n \in Resolved(response.ranking) :
              \E k \in 1..Len(response.result) :
                 response.result[k].section = SearchedSections[n]
        /\ Len(response.result) <= 5
        /\ \A k, l \in 1..Len(response.result) :
              k # l => response.result[k].section # response.result[l].section

\* the ranking response named the six sections of a manual from the last to
\* the first: the last five are returned, section 1 is not
C27_Witness ==
    /\ Ranked
    /\ Len(SearchedSections) = 6
    /\ response.ranking = << 6, 5, 4, 3, 2, 1 >>
    /\ Len(response.result) = 5
    /\ ResultsOf(SearchedSections[1]) = {}
    /\ ResultsOf(SearchedSections[6]) # {}

----------------------------------------------------------------------------
(* Claims on the chunks sections are made from                             *)

\* C28: every chunk splitIntoChunks produces, for every text, is non-empty
\* after trimming, so no section is made from an empty chunk, and a text of
\* whitespace only gives no chunk.
C28_NoEmptyChunk ==
    ChunksMade =>
        /\ \A k \in 1..Len(chunks) : NonBlank(chunks[k])
        /\ ~NonBlank(text) => chunks = << >>

----------------------------------------------------------------------------
(* Claims on the ActionRecommendations view                                *)

\* the step was reported executed for the recommendation
ExecutedFor(rec, step) == << rec.id, step.id >> \in view.executed

\* C29: in the ActionRecommendations view the Execute control of a step of
\* the selected recommendation is offered only if that step has not been
\* executed for that recommendation and every earlier step of it has been;
\* and the number of steps shown as completed is never more than the number
\* of steps of the selected recommendation.
C29_ExecuteInOrder ==
    DetailsShown =>
        LET rec == SelectedRec[1] IN
        /\ \A index \in 1..Len(rec.steps) :
              ExecuteShown(index) =>
                  /\ ~ExecutedFor(rec, rec.steps[index])
                  /\ \A j \in 1..(index - 1) : ExecutedFor(rec, rec.steps[j])
        /\ CompletedShown <= Len(rec.steps)

----------------------------------------------------------------------------
(* Claims on the dashboard's manual panels                                 *)

\* a search of the ManualSearch panel has just been answered by the core
PanelSearched ==
    /\ Searched
    /\ dashboard.isSearching
    /\ http.route = "search-manual"

\* a manual uploaded through the dashboard is stored as ready
UploadedReady ==
    /\ dashboard.operationsManual
    /\ \E i \in 1..Len(manuals) : manuals[i].status = "ready"

\* C30: once a manual has been uploaded through the dashboard and is stored
\* as ready, a search from the dashboard's ManualSearch panel names a manual
\* id that is in the store, and is answered from that manual's sections, not
\* with the empty result for an unknown manual.
C30_PanelSearchesStoredManual ==
    (PanelSearched /\ UploadedReady) =>
        /\ response.manualId \in Keys(manuals)
        /\ response.path # "refused"

====
